---- MODULE Spec2Model ----
(***************************************************************************)
(* Model of the structure_websites plugin: the template fan-out            *)
(* (ApplyStructureTemplate) with its sanitize / identity helpers, over a   *)
(* core database (db_clients, structure_templates) and one                 *)
(* structure_websites collection per tenant database.                      *)
(*                                                                         *)
(* Go strings that the code trims, parses or sorts are sequences of        *)
(* one-character strings; template keys, which the code only compares,     *)
(* are plain strings.  A JSON value is a tagged record.                    *)
(***************************************************************************)
EXTENDS Integers, Sequences, FiniteSets, TLC

(***************************************************************************)
(* Bounds of the model.                                                    *)
(***************************************************************************)
\* longest documents list a caller submits
MaxDocs == 2
\* most db_clients records in the core registry
MaxClients == 2

(***************************************************************************)
(* Go strings.                                                             *)
(***************************************************************************)
EmptyStr == << >>

Space == {" ", "\t", "\n", "\r"}

RECURSIVE TrimLeft(_)
TrimLeft(s) ==
  IF s = << >> THEN << >>
  ELSE IF Head(s) \in Space THEN TrimLeft(Tail(s)) ELSE s

RECURSIVE TrimRight(_)
TrimRight(s) ==
  IF s = << >> THEN << >>
  ELSE IF s[Len(s)] \in Space THEN TrimRight(SubSeq(s, 1, Len(s) - 1)) ELSE s

\* strings.TrimSpace
TrimSpace(s) == TrimRight(TrimLeft(s))

HexDigits == <<"0", "1", "2", "3", "4", "5", "6", "7", "8", "9",
               "a", "b", "c", "d", "e", "f">>

UpperHex == <<"A", "B", "C", "D", "E", "F">>

IsHexChar(c) ==
  \/ \E i \in 1..Len(HexDigits) : HexDigits[i] = c
  \/ \E i \in 1..Len(UpperHex) : UpperHex[i] = c

\* the value of a hex digit, either case
HexVal(c) ==
  IF \E i \in 1..Len(UpperHex) : UpperHex[i] = c
  THEN 9 + (CHOOSE i \in 1..Len(UpperHex) : UpperHex[i] = c)
  ELSE (CHOOSE i \in 1..Len(HexDigits) : HexDigits[i] = c) - 1

(***************************************************************************)
(* JSON / BSON values (interface{}).                                       *)
(***************************************************************************)
Nil == [t |-> "nil"]
VStr(s) == [t |-> "str", s |-> s]
VBool(b) == [t |-> "bool", b |-> b]
VInt(n) == [t |-> "int", n |-> n]
VFloat(n) == [t |-> "float", f |-> n]
VOid(h) == [t |-> "oid", h |-> h]
VObj(m) == [t |-> "obj", m |-> m]
VArr(a) == [t |-> "arr", a |-> a]

\* the empty map[string]interface{}
EmptyMap == [k \in {} |-> Nil]

\* m with m[k] = v
Put(m, k, v) == [x \in (DOMAIN m) \cup {k} |-> IF x = k THEN v ELSE m[x]]

\* primitive.ObjectIDFromHex: 24 hex digits, either case, give the 12 bytes
\* of the identity; anything else is an error.
HexOk(s) == Len(s) = 24 /\ \A i \in 1..Len(s) : IsHexChar(s[i])

ObjectIDFromHex(s) ==
  [i \in 1..12 |-> 16 * HexVal(s[2 * i - 1]) + HexVal(s[2 * i])]

\* one identity handed out every time
NewObjectIDSame(n) == [i \in 1..12 |-> 0]

\* the n-th identity primitive.NewObjectID hands out: 12 bytes no caller
\* of the model submits
NewObjectID(n) == [i \in 1..12 |-> IF i < 12 THEN 0 ELSE n]

(***************************************************************************)
(* Template sanitizer.                                                     *)
(***************************************************************************)
\* copyTemplateValue: a deep copy; values here are immutable
copyTemplateValue(value) == value

toTemplateMap(value) ==
  IF value.t = "obj" THEN value.m
  ELSE IF value.t = "arr" /\ Len(value.a) > 0 /\ value.a[1].t = "obj"
       THEN value.a[1].m
       ELSE EmptyMap

toTemplateSlice(value) ==
  IF value.t = "arr" THEN value.a
  ELSE IF value.t = "obj" THEN <<value>>
  ELSE IF value.t = "nil" THEN << >>
  ELSE <<copyTemplateValue(value)>>

\* the later value wins, whatever the earlier one is
mergeTemplateValuesLast(base, incoming) ==
  IF incoming.t = "nil" THEN base ELSE copyTemplateValue(incoming)

\* the earlier value wins, whatever it is
mergeTemplateValuesFirst(base, incoming) ==
  IF base.t = "nil" THEN copyTemplateValue(incoming) ELSE base

RECURSIVE mergeTemplateValues(_, _)
mergeTemplateValues(base, incoming) ==
  IF base.t = "nil" THEN copyTemplateValue(incoming)
  ELSE IF incoming.t = "nil" THEN base
  ELSE IF base.t = "obj" THEN
    LET inc == toTemplateMap(incoming)
    IN  VObj([key \in (DOMAIN base.m) \cup (DOMAIN inc) |->
               IF key \in DOMAIN inc
               THEN mergeTemplateValues(
                      IF key \in DOMAIN base.m THEN base.m[key] ELSE Nil,
                      inc[key])
               ELSE base.m[key]])
  ELSE IF base.t = "arr" THEN
    LET incomingSlice == toTemplateSlice(incoming)
        baseElem == IF Len(base.a) > 0 THEN base.a[1] ELSE Nil
        incomingElem == IF Len(incomingSlice) > 0 THEN incomingSlice[1] ELSE Nil
        merged == mergeTemplateValues(baseElem, incomingElem)
    IN  IF Len(base.a) = 0 /\ Len(incomingSlice) = 0 THEN VArr(<< >>)
        ELSE IF merged.t = "nil" THEN VArr(<< >>)
        ELSE VArr(<<merged>>)
  ELSE base

RECURSIVE buildTemplateValue(_)
RECURSIVE FoldItems(_, _, _)
\* only the first item is looked at
FoldItemsFirst(element, items, i) ==
  IF i > Len(items) THEN element
  ELSE mergeTemplateValues(element, buildTemplateValue(items[i]))

\* the loop of the []interface{} case: element after items i..Len(items)
FoldItems(element, items, i) ==
  IF i > Len(items) THEN element
  ELSE FoldItems(mergeTemplateValues(element, buildTemplateValue(items[i])),
                 items, i + 1)

\* the zero of a number is written as text
buildTemplateValueText(value) ==
  IF value.t = "obj" THEN
    VObj([key \in DOMAIN value.m |->
           mergeTemplateValues(Nil, buildTemplateValue(value.m[key]))])
  ELSE IF value.t = "arr" THEN
    LET element == FoldItems(Nil, value.a, 1)
    IN  IF element.t = "nil" THEN VArr(<< >>) ELSE VArr(<<element>>)
  ELSE IF value.t \in {"str", "nil"} THEN VStr(EmptyStr)
  ELSE IF value.t = "bool" THEN VBool(FALSE)
  ELSE IF value.t \in {"int", "float"} THEN VStr(<<"0">>)
  ELSE VStr(EmptyStr)

buildTemplateValue(value) ==
  IF value.t = "obj" THEN
    VObj([key \in DOMAIN value.m |->
           mergeTemplateValues(Nil, buildTemplateValue(value.m[key]))])
  ELSE IF value.t = "arr" THEN
    LET element == FoldItems(Nil, value.a, 1)
    IN  IF element.t = "nil" THEN VArr(<< >>) ELSE VArr(<<element>>)
  ELSE IF value.t \in {"str", "nil"} THEN VStr(EmptyStr)
  ELSE IF value.t = "bool" THEN VBool(FALSE)
  ELSE IF value.t \in {"int", "float"} THEN VInt(0)
  ELSE VStr(EmptyStr)

\* the document is returned as it came
sanitizeTemplateDocumentRaw(doc) == doc

\* sanitizeTemplateDocument, on a non-nil document (a map field -> value)
sanitizeTemplateDocument(doc) ==
  LET template == buildTemplateValue(VObj(doc))
  IN  IF template.t = "obj" THEN template.m ELSE EmptyMap

\* cloneMap / deepCopyValue: a deep copy; values here are immutable
cloneMap(src) == src

(***************************************************************************)
(* prepareTemplateDocument: the sanitized skeleton and the resolved        *)
(* identity of one raw document; n is the next identity NewObjectID        *)
(* would hand out.  The result says whether an identity was generated.     *)
(***************************************************************************)
\* a malformed hex string is taken as no identity: a new one is generated
ResolveIDLenient(doc, n) ==
  IF "_id" \in DOMAIN doc /\ doc["_id"].t = "oid"
  THEN [err |-> FALSE, id |-> doc["_id"].h, generated |-> FALSE]
  ELSE IF "_id" \in DOMAIN doc /\ doc["_id"].t = "str"
          /\ HexOk(TrimSpace(doc["_id"].s))
  THEN [err |-> FALSE, id |-> ObjectIDFromHex(TrimSpace(doc["_id"].s)),
        generated |-> FALSE]
  ELSE [err |-> FALSE, id |-> NewObjectID(n), generated |-> TRUE]

\* the identity the caller gave is ignored: a new one is always generated
ResolveIDAlwaysNew(doc, n) ==
  [err |-> FALSE, id |-> NewObjectID(n), generated |-> TRUE]

\* the switch on doc["_id"]: the identity, whether it was generated, or an error
ResolveID(doc, n) ==
  LET done(id, gen) == [err |-> FALSE, id |-> id, generated |-> gen]
      fail == [err |-> TRUE, id |-> EmptyStr, generated |-> FALSE]
  IN  IF "_id" \in DOMAIN doc THEN
        LET rawID == doc["_id"]
        IN  IF rawID.t = "str" THEN
              LET v == TrimSpace(rawID.s)
              IN  IF v = EmptyStr THEN done(NewObjectID(n), TRUE)
                  ELSE IF HexOk(v) THEN done(ObjectIDFromHex(v), FALSE)
                  ELSE fail
            ELSE IF rawID.t = "oid" THEN done(rawID.h, FALSE)
            ELSE fail
      ELSE done(NewObjectID(n), TRUE)

\* the skeleton with the zero value of the sanitizer in its _id
WithIDSanitized(sanitized, r) ==
  [err |-> r.err, id |-> r.id, generated |-> r.generated,
   sanitized |-> IF r.err THEN EmptyMap ELSE Put(sanitized, "_id", VStr(EmptyStr))]

\* the skeleton with the resolved identity r in its _id
WithID(sanitized, r) ==
  [err |-> r.err, id |-> r.id, generated |-> r.generated,
   sanitized |-> IF r.err THEN EmptyMap ELSE Put(sanitized, "_id", VOid(r.id))]

prepareTemplateDocument(doc, n) ==
  WithID(sanitizeTemplateDocument(doc), ResolveID(doc, n))

(***************************************************************************)
(* sort.Strings: byte-wise lexicographic order.                            *)
(***************************************************************************)
\* the characters the model's strings use, in byte order
Chars == <<"\t", "\n", "\r", " ",
           "0", "1", "2", "3", "4", "5", "6", "7", "8", "9",
           "A", "B", "C", "D", "E", "F", "_",
           "a", "b", "c", "d", "e", "f", "g", "h", "i", "j", "k", "l", "m",
           "n", "o", "p", "q", "r", "s", "t", "u", "v", "w", "x", "y", "z">>

Ord(c) == CHOOSE i \in 1..Len(Chars) : Chars[i] = c

RECURSIVE StrLess(_, _)
StrLess(a, b) ==
  IF b = << >> THEN FALSE
  ELSE IF a = << >> THEN TRUE
  ELSE IF Head(a) = Head(b) THEN StrLess(Tail(a), Tail(b))
  ELSE Ord(Head(a)) < Ord(Head(b))

RECURSIVE Insert(_, _)
Insert(sorted, x) ==
  IF sorted = << >> THEN <<x>>
  ELSE IF StrLess(x, Head(sorted)) THEN <<x>> \o sorted
  ELSE <<Head(sorted)>> \o Insert(Tail(sorted), x)

\* the names left in cursor order
SortStringsNone(names) == names

RECURSIVE SortStrings(_)
SortStrings(names) ==
  IF names = << >> THEN << >>
  ELSE Insert(SortStrings(SubSeq(names, 1, Len(names) - 1)), names[Len(names)])

(***************************************************************************)
(* The data of the model: names, identities, documents, registrations.     *)
(***************************************************************************)
\* the default flag field and the legacy one
StructureTemplateField ==
  <<"s", "t", "r", "u", "c", "t", "u", "r", "e", "_",
    "t", "e", "m", "p", "l", "a", "t", "e">>

LegacyField == <<"t", "e", "m", "p", "l", "a", "t", "e">>

Acme == <<"a", "c", "m", "e">>
AcmePadded == <<" ", "a", "c", "m", "e", " ">>
Zenith == <<"z", "e", "n", "i", "t", "h">>
Blank == <<" ", " ">>

\* the tenant databases
DBNames == {Acme, Zenith}

\* 652f781b0b0f5f6c1b3dd111, the README's first identity, as the caller writes it
HexHome == <<"6", "5", "2", "f", "7", "8", "1", "b", "0", "b", "0", "f",
             "5", "f", "6", "c", "1", "b", "3", "d", "d", "1", "1", "1">>

\* its 12 bytes, those of ...112, and those of an identity outside the template
IdHome == ObjectIDFromHex(HexHome)

IdMenu == [i \in 1..12 |-> IF i = 12 THEN 18 ELSE IdHome[i]]

IdOld == [i \in 1..12 |-> IF i = 12 THEN 25 ELSE IdHome[i]]

Text(s) == VStr(s)

\* documents a caller submits
DocHome ==
  VObj(("_id" :> VStr(HexHome)) @@ ("slug" :> Text(<<"h", "o", "m", "e">>))
       @@ ("sections" :> VArr(<<VObj(("type" :> Text(<<"h">>))
                                      @@ ("title" :> Text(<<"W">>)))>>)))

DocMenu ==
  VObj(("_id" :> VOid(IdMenu)) @@ ("slug" :> Text(<<"m", "e", "n", "u">>))
       @@ ("visible" :> VBool(TRUE)))

\* another document under the identity of DocHome
DocHomeAlt ==
  VObj(("_id" :> VStr(HexHome)) @@ ("title" :> Text(<<"A", "l", "t">>)))

DocNoId == VObj(("slug" :> Text(<<"n", "e", "w">>)) @@ ("order" :> VInt(3)))

DocBadId == VObj(("_id" :> VStr(<<"x", "y", "z">>)) @@ ("slug" :> Text(<<"b">>)))

RawDocs == {Nil, DocHome, DocMenu, DocNoId, DocBadId}

TemplateKeys == {"", "template-1"}

\* what a tenant's structure_websites may hold before a call
EmptyColl == [id \in {} |-> EmptyMap]

PriorColl ==
  (IdHome :> (("_id" :> VOid(IdHome)) @@ ("slug" :> Text(<<"o", "l", "d">>))
              @@ ("banner" :> Text(<<"s", "a", "l", "e">>))))
  @@ (IdOld :> (("_id" :> VOid(IdOld)) @@ ("slug" :> Text(<<"g", "o", "n", "e">>))))

\* db_clients records
Rec(name, field, key) == [client_name |-> name, flags |-> (field :> key)]

ClientRecs ==
  { Rec(Acme, StructureTemplateField, "template-1"),
    Rec(AcmePadded, StructureTemplateField, "template-1"),
    Rec(Zenith, StructureTemplateField, "template-1"),
    Rec(Zenith, LegacyField, "template-1"),
    Rec(Blank, StructureTemplateField, "template-1") }

\* sequences over S of length at most n
SeqsUpTo(S, n) == UNION {[1..k -> S] : k \in 0..n}

\* registries: the records of db_clients in cursor order, each at most once
Registries ==
  {r \in SeqsUpTo(ClientRecs, MaxClients) :
     \A i, j \in DOMAIN r : i # j => r[i] # r[j]}

Inputs ==
  [key : TemplateKeys, docs : SeqsUpTo(RawDocs, MaxDocs), field : {Nil}]

\* inputs that pass the validation
ValidInputs ==
  [key : {"template-1"},
   docs : SeqsUpTo({DocHome, DocMenu, DocNoId}, MaxDocs) \ {<< >>},
   field : {Nil}]

\* inputs of concurrent callers: lists without repetition
ConcInputs ==
  {in \in [key : {"template-1"},
           docs : SeqsUpTo({DocHome, DocHomeAlt, DocMenu}, MaxDocs) \ {<< >>},
           field : {Nil}] :
     \A i, j \in DOMAIN in.docs : i # j => in.docs[i] # in.docs[j]}

(***************************************************************************)
(* State.                                                                  *)
(***************************************************************************)
VARIABLES
  clients,     \* core.db_clients, in cursor order
  templates,   \* core.structure_templates: template_key -> record
  dbs,         \* tenant database name -> its structure_websites: _id -> document
  call,        \* per caller: the ApplyStructureTemplate invocation in progress
  oidCounter,  \* identities NewObjectID has handed out
  clock,       \* time.Now
  callsLeft,   \* per caller: invocations still to be made
  scenario,    \* which inputs callers submit (see Requests)
  prev,        \* how the last invocation returned, where calls are sequential
  localDev,    \* the value of the environment variable LOCAL_DEVELOPMENT
  plugins,     \* the plugins collection of the request's tenant
  cdn,         \* the files under cdn/
  reply,       \* what the last guarded operation returned
  rawDoc,      \* the document handed to sanitizeTemplateDocument
  skeleton,    \* what sanitizeTemplateDocument returned for it
  googleReviews, \* the collection google_reviews, in cursor order
  results      \* what FetchGoogleReviewsJSON returned

vars == <<clients, templates, dbs, call, oidCounter, clock, callsLeft, scenario, prev,
          localDev, plugins, cdn, reply, rawDoc, skeleton, googleReviews, results>>

\* the variables of the sanitizer and of the reviews, and their values where
\* neither has run
pureVars == <<rawDoc, skeleton, googleReviews, results>>

NoSkeleton == [pass |-> 0]

NoResults == [err |-> "none"]

PureIdle ==
  /\ rawDoc = [k \in {} |-> 0]
  /\ skeleton = NoSkeleton
  /\ googleReviews = << >>
  /\ results = NoResults

\* the variables of the guarded operations
devVars == <<localDev, plugins, cdn, reply>>

Callers == {1, 2}

NoError == [kind |-> "none", client |-> EmptyStr]
Error(kind) == [kind |-> kind, client |-> EmptyStr]
ClientError(kind, name) == [kind |-> kind, client |-> name]

NoInput == [key |-> "", docs |-> << >>, field |-> Nil]

EmptySummary ==
  [TemplateKey |-> "", TargetField |-> EmptyStr, ClientNames |-> << >>,
   UpdatedDocuments |-> 0, DeletedDocuments |-> 0]

IdleCall ==
  [pc |-> "idle", input |-> NoInput, targetField |-> EmptyStr,
   effectiveField |-> EmptyStr, sanitizedDocs |-> << >>, templateIDs |-> << >>,
   cursor |-> << >>, pos |-> 1, clientName |-> EmptyStr, docIdx |-> 1,
   summary |-> EmptySummary, err |-> NoError,
   log |-> << >>, preDbs |-> << >>, preTemplates |-> << >>]

\* documents whose _id is a blank string, and the identity of DocMenu as a
\* hex string typed with blanks around it
DocBlankId == VObj(("_id" :> VStr(Blank)) @@ ("slug" :> Text(<<"x">>)))

DocPaddedId ==
  VObj(("_id" :> VStr(<<" ">> \o [HexHome EXCEPT ![24] = "2"] \o <<" ">>))
       @@ ("slug" :> Text(<<"p">>)))

\* inputs for the resolution of identities
IdentityInputs ==
  [key : {"template-1"},
   docs : SeqsUpTo({DocNoId, DocBlankId, DocPaddedId, DocHome, DocMenu, DocBadId},
                   MaxDocs) \ {<< >>},
   field : {Nil}]

\* a document with an empty string, a null and, one object down, another
\* empty string among its fields
DocBlanks ==
  VObj(("_id" :> VOid(IdMenu)) @@ ("slug" :> Text(EmptyStr)) @@ ("title" :> Nil)
       @@ ("order" :> VInt(3))
       @@ ("banner" :> VObj(("text" :> Text(EmptyStr))
                            @@ ("color" :> Text(<<"r", "e", "d">>)))))

\* inputs with empty fields
BlankInputs ==
  [key : {"template-1"},
   docs : SeqsUpTo({DocBlanks, DocHome}, MaxDocs) \ {<< >>},
   field : {Nil}]

\* inputs of a caller that applies templates one after the other
SeqInputs ==
  [key : {"template-1", "template-2"},
   docs : SeqsUpTo({DocHome, DocNoId}, MaxDocs) \ {<< >>},
   field : {Nil}]

\* a flag field of the caller's own, as such and as typed with a blank
CustomField == <<"s", "i", "t", "e">>
CustomPadded == <<" ", "s", "i", "t", "e">>

\* registries for callers that name the target field
FieldRegistries ==
  {r \in SeqsUpTo({Rec(Acme, StructureTemplateField, "template-1"),
                   Rec(Acme, CustomField, "template-1"),
                   Rec(Zenith, LegacyField, "template-1")}, MaxClients) :
     \A i, j \in DOMAIN r : i # j => r[i] # r[j]}

\* inputs that name the target field
FieldInputs ==
  [key : {"template-1"},
   docs : SeqsUpTo({DocHome, DocMenu}, MaxDocs) \ {<< >>},
   field : {VStr(CustomField), VStr(CustomPadded),
            VStr(StructureTemplateField), VStr(Blank)}]

NoPrev == [returned |-> "none"]

\* the elements of a sequence
Range(q) == {q[i] : i \in DOMAIN q}

\* Resolver.ApplyStructureTemplate: nil documents are dropped
RECURSIVE DropNil(_)
DropNil(docs) ==
  IF docs = << >> THEN << >>
  ELSE IF Head(docs) = Nil THEN DropNil(Tail(docs))
  ELSE <<Head(docs)>> \o DropNil(Tail(docs))

\* Resolver.ApplyStructureTemplate: the target field, trimmed; "" if not given
ResolverTargetField(field) ==
  IF field = Nil THEN EmptyStr ELSE TrimSpace(field.s)

\* the loop over the documents: skeletons and identities, or the first error;
\* n counts the identities generated on the way
RECURSIVE PrepareDocs(_, _, _, _)
PrepareDocs(documents, idx, n, acc) ==
  IF idx > Len(documents) THEN [acc EXCEPT !.n = n]
  ELSE IF documents[idx] = Nil THEN PrepareDocs(documents, idx + 1, n, acc)
  ELSE LET p == prepareTemplateDocument(documents[idx].m, n + 1)
       IN  IF p.err THEN [acc EXCEPT !.err = "document", !.n = n]
           ELSE PrepareDocs(documents, idx + 1,
                            IF p.generated THEN n + 1 ELSE n,
                            [acc EXCEPT !.docs = Append(@, p.sanitized),
                                        !.ids = Append(@, p.id)])

\* no document survived the loop
CheckUsable(r) ==
  IF r.err = "" /\ Len(r.docs) = 0 THEN [r EXCEPT !.err = "unusable"] ELSE r

\* the validation of ApplyStructureTemplate, before any database is touched
Validate(templateKey, documents, n) ==
  LET none == [err |-> "", docs |-> << >>, ids |-> << >>, n |-> n]
  IN  IF templateKey = "" THEN [none EXCEPT !.err = "templateKey"]
      ELSE IF Len(documents) = 0 THEN [none EXCEPT !.err = "empty"]
      ELSE CheckUsable(PrepareDocs(documents, 1, n, none))

\* the default of targetField
DefaultField(targetField) ==
  IF targetField = EmptyStr THEN StructureTemplateField ELSE targetField

\* the filter bson.M{field: templateKey} on a db_clients record
Matches(rec, field, templateKey) ==
  field \in DOMAIN rec.flags /\ rec.flags[field] = templateKey

CountDocuments(field, templateKey) ==
  Cardinality({i \in DOMAIN clients : Matches(clients[i], field, templateKey)})

\* the fallback to the legacy field for any field that matches nothing
EffectiveFieldAnyFallback(targetField, count) ==
  IF count = 0 THEN LegacyField ELSE targetField

\* the lookup without the fallback to the legacy field
EffectiveFieldNoFallback(targetField, count) == targetField

\* the field the tenants are looked up by
EffectiveField(targetField, count) ==
  IF targetField = StructureTemplateField /\ count = 0
  THEN LegacyField ELSE targetField

\* every record of the registry, whatever its flag fields
FindClientsAll(recs, field, templateKey) == recs

RECURSIVE FindClients(_, _, _)
FindClients(recs, field, templateKey) ==
  IF recs = << >> THEN << >>
  ELSE (IF Matches(Head(recs), field, templateKey) THEN <<Head(recs)>> ELSE << >>)
       \o FindClients(Tail(recs), field, templateKey)

\* what Decode keeps of the records of a cursor: client_name
ClientNamesOf(recs) == [i \in DOMAIN recs |-> recs[i].client_name]

\* the documents added to those the record of the key already lists
UpdateOneAppend(coll, templateKey, set) ==
  IF templateKey \in DOMAIN coll
  THEN Put(coll, templateKey,
           [set EXCEPT !.documents = coll[templateKey].documents \o @])
  ELSE Put(coll, templateKey, set)

\* UpdateOne with upsert on {template_key: templateKey}: $set of all the
\* fields of the record
UpdateOne(coll, templateKey, set) == Put(coll, templateKey, set)

\* ReplaceOne without the upsert option: only an existing document is replaced
ReplaceOneNoUpsert(coll, doc) ==
  IF doc["_id"].h \in DOMAIN coll THEN Put(coll, doc["_id"].h, doc) ELSE coll

\* an update with $set in place of the replacement: other fields are kept
ReplaceOneMerge(coll, doc) ==
  IF doc["_id"].h \in DOMAIN coll
  THEN Put(coll, doc["_id"].h, doc @@ coll[doc["_id"].h])
  ELSE Put(coll, doc["_id"].h, doc)

\* ReplaceOne(_id = doc._id, doc, upsert) on a collection
ReplaceOne(coll, doc) == Put(coll, doc["_id"].h, doc)

\* the documents DeleteMany(_id $nin templateIDs) removes
Outdated(coll, templateIDs) == (DOMAIN coll) \ Range(templateIDs)

\* the filter written with $in in place of $nin
DeleteManyIn(coll, templateIDs) ==
  [id \in (DOMAIN coll) \ Range(templateIDs) |-> coll[id]]

\* the delete left out
DeleteManyNone(coll, templateIDs) == coll

DeleteMany(coll, templateIDs) ==
  [id \in (DOMAIN coll) \ Outdated(coll, templateIDs) |-> coll[id]]

\* where the invocation goes after a database operation: on, or out with
\* the error
AfterCount(ok) == IF ok THEN "store" ELSE "done"

\* the error of the registry write is dropped
AfterStoreIgnore(ok) == "find"

AfterStore(ok) == IF ok THEN "find" ELSE "done"

AfterFind(ok) == IF ok THEN "next" ELSE "done"

\* the error of an upsert does not end the loop
AfterUpsertIgnore(ok, last) == IF last THEN "delete" ELSE "upsert"

AfterUpsert(ok, last) == IF ~ok THEN "done" ELSE IF last THEN "delete" ELSE "upsert"

AfterDelete(ok) == IF ok THEN "next" ELSE "done"

(***************************************************************************)
(* Actions: one per database operation of ApplyStructureTemplate; every    *)
(* database operation may fail.                                            *)
(***************************************************************************)
Set(c, rec) == call' = [call EXCEPT ![c] = rec]

\* the inputs of the scenario: any input; the input of the invocation that
\* just returned a summary; inputs that name the target field; inputs that
\* pass the validation, for two callers
Requests ==
  IF scenario = "any" THEN Inputs
  ELSE IF scenario = "reapply" THEN
    (IF prev.returned = "none" THEN ValidInputs
     ELSE IF prev.returned = "summary" THEN {prev.input} ELSE {})
  ELSE IF scenario = "field" THEN FieldInputs
  ELSE IF scenario = "identity" THEN IdentityInputs
  ELSE IF scenario = "sequence" THEN SeqInputs
  ELSE IF scenario = "blank" THEN BlankInputs
  ELSE ConcInputs

\* the invocation record once the validation has returned v; it keeps the
\* request as submitted if it was rejected, else as ApplyStructureTemplate
\* received it, without the nil documents
Validated(input, v) ==
  [IdleCall EXCEPT
     !.pc = IF v.err # "" THEN "done" ELSE "count",
     !.input = IF v.err # "" THEN input ELSE [input EXCEPT !.docs = DropNil(@)],
     !.targetField = DefaultField(ResolverTargetField(input.field)),
     !.sanitizedDocs = v.docs,
     !.templateIDs = v.ids,
     !.err = IF v.err # "" THEN Error(v.err) ELSE NoError,
     !.preDbs = dbs,
     !.preTemplates = templates]

\* the caller passes input; the resolver and the validation run
Begin(c, input) ==
  /\ \E v \in {Validate(input.key, DropNil(input.docs), oidCounter)} :
        /\ oidCounter' = v.n
        /\ Set(c, Validated(input, v))
  /\ callsLeft' = [callsLeft EXCEPT ![c] = @ - 1]
  /\ UNCHANGED <<clients, templates, dbs, clock, scenario, prev>>

\* clientsColl.CountDocuments, issued for the default field only
CountClients(c, ok) ==
  /\ call[c].pc = "count"
  /\ ok \/ call[c].targetField = StructureTemplateField
  /\ LET cl == call[c]
         count == CountDocuments(cl.targetField, cl.input.key)
     IN  Set(c, [cl EXCEPT
                   !.pc = AfterCount(ok),
                   !.effectiveField =
                      IF ok THEN EffectiveField(cl.targetField, count) ELSE @,
                   !.err = IF ok THEN @ ELSE Error("count")])
  /\ UNCHANGED <<clients, templates, dbs, oidCounter, clock, callsLeft, scenario, prev>>

\* templatesColl.UpdateOne with upsert
StoreTemplate(c, ok) ==
  /\ call[c].pc = "store"
  /\ LET cl == call[c]
         docsForStorage == [i \in DOMAIN cl.sanitizedDocs |-> cloneMap(cl.sanitizedDocs[i])]
     IN  /\ templates' =
              IF ok THEN UpdateOne(templates, cl.input.key,
                                   [template_key |-> cl.input.key,
                                    documents |-> docsForStorage,
                                    updated_at |-> clock])
              ELSE templates
         /\ Set(c, [cl EXCEPT !.pc = AfterStore(ok),
                              !.err = IF ok THEN @ ELSE Error("store")])
  /\ clock' = clock + 1
  /\ UNCHANGED <<clients, dbs, oidCounter, callsLeft, scenario, prev>>

\* clientsColl.Find, and the summary set up with the key and the field
OpenCursor(c, ok) ==
  /\ call[c].pc = "find"
  /\ LET cl == call[c]
     IN  Set(c, [cl EXCEPT
                   !.pc = AfterFind(ok),
                   !.cursor = IF ok THEN ClientNamesOf(FindClients(clients, cl.effectiveField, cl.input.key))
                              ELSE @,
                   !.summary = IF ok THEN [@ EXCEPT !.TemplateKey = cl.input.key,
                                                    !.TargetField = cl.effectiveField]
                               ELSE @,
                   !.err = IF ok THEN @ ELSE Error("find")])
  /\ UNCHANGED <<clients, templates, dbs, oidCounter, clock, callsLeft, scenario, prev>>

\* clientCursor.Next and Decode of one record; blank names are skipped
NextClient(c, ok) ==
  /\ call[c].pc = "next"
  /\ call[c].pos <= Len(call[c].cursor)
  /\ LET cl == call[c]
         clientName == TrimSpace(cl.cursor[cl.pos])
     IN  Set(c, IF ~ok THEN [cl EXCEPT !.pc = "done", !.err = Error("decode")]
                ELSE IF clientName = EmptyStr THEN [cl EXCEPT !.pos = @ + 1]
                ELSE [cl EXCEPT !.pc = "upsert", !.clientName = clientName,
                                !.docIdx = 1])
  /\ UNCHANGED <<clients, templates, dbs, oidCounter, clock, callsLeft, scenario, prev>>

\* collection.ReplaceOne of the next template document
UpsertDocument(c, ok) ==
  /\ call[c].pc = "upsert"
  /\ LET cl == call[c]
         docCopy == cloneMap(cl.sanitizedDocs[cl.docIdx])
         last == cl.docIdx = Len(cl.sanitizedDocs)
     IN  /\ dbs' = IF ok THEN [dbs EXCEPT ![cl.clientName] = ReplaceOne(@, docCopy)]
                   ELSE dbs
         /\ Set(c, IF ok
                   THEN [cl EXCEPT
                           !.pc = AfterUpsert(ok, last),
                           !.docIdx = @ + 1,
                           !.summary.UpdatedDocuments = @ + 1,
                           !.log = Append(@, [op |-> "upsert", db |-> cl.clientName,
                                              pos |-> cl.pos])]
                   ELSE [cl EXCEPT !.pc = AfterUpsert(ok, last),
                                   !.err = ClientError("upsert", cl.clientName)])
  /\ UNCHANGED <<clients, templates, oidCounter, clock, callsLeft, scenario, prev>>

\* collection.DeleteMany of the documents outside the template
DeleteOutdated(c, ok) ==
  /\ call[c].pc = "delete"
  /\ LET cl == call[c]
         coll == dbs[cl.clientName]
     IN  /\ dbs' = IF ok THEN [dbs EXCEPT ![cl.clientName] = DeleteMany(coll, cl.templateIDs)]
                   ELSE dbs
         /\ Set(c, IF ok
                   THEN [cl EXCEPT
                           !.pc = AfterDelete(ok),
                           !.pos = @ + 1,
                           !.summary.DeletedDocuments =
                              @ + Cardinality(Outdated(coll, cl.templateIDs)),
                           !.summary.ClientNames = Append(@, cl.clientName),
                           !.log = Append(@, [op |-> "delete", db |-> cl.clientName,
                                              pos |-> cl.pos])]
                   ELSE [cl EXCEPT !.pc = AfterDelete(ok),
                                   !.err = ClientError("delete", cl.clientName)])
  /\ UNCHANGED <<clients, templates, oidCounter, clock, callsLeft, scenario, prev>>

\* the cursor is exhausted: clientCursor.Err, sort.Strings, return
Finish(c, ok) ==
  /\ call[c].pc = "next"
  /\ call[c].pos > Len(call[c].cursor)
  /\ LET cl == call[c]
     IN  Set(c, IF ok
                THEN [cl EXCEPT !.pc = "done",
                                !.summary.ClientNames = SortStrings(@)]
                ELSE [cl EXCEPT !.pc = "done", !.err = Error("cursor")])
  /\ UNCHANGED <<clients, templates, dbs, oidCounter, clock, callsLeft, scenario, prev>>

\* what ApplyStructureTemplate returns: the summary, or nil with the error
Returned(cl) ==
  [summary |-> IF cl.err = NoError THEN cl.summary ELSE Nil, err |-> cl.err]

\* the invocation has returned; where calls are sequential its result is remembered
Return(c) ==
  /\ call[c].pc = "done"
  /\ prev' = IF scenario = "concurrent" THEN prev
             ELSE IF call[c].err = NoError
             THEN [returned |-> "summary", input |-> call[c].input,
                   summary |-> call[c].summary, dbs |-> dbs]
             ELSE [returned |-> "error"]
  /\ Set(c, IdleCall)
  /\ UNCHANGED <<clients, templates, dbs, oidCounter, clock, callsLeft, scenario>>

\* a caller with an invocation left submits one of the scenario's inputs
Invoke(c) ==
  /\ call[c].pc = "idle"
  /\ callsLeft[c] > 0
  /\ \E input \in Requests : Begin(c, input)

Step(c) ==
  \/ Invoke(c)
  \/ \E ok \in BOOLEAN : CountClients(c, ok)
  \/ \E ok \in BOOLEAN : StoreTemplate(c, ok)
  \/ \E ok \in BOOLEAN : OpenCursor(c, ok)
  \/ \E ok \in BOOLEAN : NextClient(c, ok)
  \/ \E ok \in BOOLEAN : UpsertDocument(c, ok)
  \/ \E ok \in BOOLEAN : DeleteOutdated(c, ok)
  \/ \E ok \in BOOLEAN : Finish(c, ok)
  \/ Return(c)

Next == \E c \in Callers : Step(c) /\ UNCHANGED <<devVars, pureVars>>

InitWith(calls, registries, colls, inputs) ==
  /\ clients \in registries
  /\ templates = [k \in {} |-> Nil]
  /\ \E coll \in colls : dbs = [name \in DBNames |-> coll]
  /\ scenario = inputs
  /\ call = [c \in Callers |-> IdleCall]
  /\ oidCounter = 0
  /\ clock = 0
  /\ callsLeft = calls
  /\ prev = NoPrev
  /\ localDev = EmptyStr
  /\ plugins = [n \in {} |-> EmptyMap]
  /\ cdn = {}
  /\ reply = [op |-> "none"]
  /\ PureIdle

(***************************************************************************)
(* Spec: one caller makes one invocation with any input, from any          *)
(* registry and prior tenant content.                                      *)
(***************************************************************************)
Init == InitWith((1 :> 1) @@ (2 :> 0), Registries, {EmptyColl, PriorColl}, "any")

Spec == Init /\ [][Next]_vars

(***************************************************************************)
(* SpecTwice: one caller applies a template and, if that returned a        *)
(* summary, applies the same input again.                                  *)
(***************************************************************************)
InitTwice == InitWith((1 :> 2) @@ (2 :> 0), Registries, {PriorColl}, "reapply")

SpecTwice == InitTwice /\ [][Next]_vars

(***************************************************************************)
(* SpecConc: two callers, one invocation each, on the registry of one      *)
(* tenant; their steps interleave.                                         *)
(***************************************************************************)
InitConc ==
  InitWith((1 :> 1) @@ (2 :> 1),
           {<<Rec(Acme, StructureTemplateField, "template-1")>>},
           {PriorColl}, "concurrent")

SpecConc == InitConc /\ [][Next]_vars

(***************************************************************************)
(* SpecField: one caller makes one invocation that names the target field. *)
(***************************************************************************)
InitField ==
  InitWith((1 :> 1) @@ (2 :> 0), FieldRegistries, {PriorColl}, "field")

SpecField == InitField /\ [][Next]_vars

(***************************************************************************)
(* SpecIdentity: one caller applies documents with every form of _id to    *)
(* one tenant.                                                             *)
(***************************************************************************)
InitIdentity ==
  InitWith((1 :> 1) @@ (2 :> 0),
           {<<Rec(Acme, StructureTemplateField, "template-1")>>},
           {PriorColl}, "identity")

SpecIdentity == InitIdentity /\ [][Next]_vars

(***************************************************************************)
(* SpecBlank: one caller applies documents with empty fields to two         *)
(* tenants.                                                                 *)
(***************************************************************************)
InitBlank ==
  InitWith((1 :> 1) @@ (2 :> 0),
           {<<Rec(Acme, StructureTemplateField, "template-1"),
              Rec(Zenith, StructureTemplateField, "template-1")>>},
           {EmptyColl, PriorColl}, "blank")

SpecBlank == InitBlank /\ [][Next]_vars

(***************************************************************************)
(* SpecSeq: one caller applies two templates, of the same name or not, one *)
(* after the other.                                                        *)
(***************************************************************************)
InitSeq ==
  InitWith((1 :> 2) @@ (2 :> 0),
           {<<Rec(Acme, StructureTemplateField, "template-1")>>},
           {PriorColl}, "sequence")

SpecSeq == InitSeq /\ [][Next]_vars

(***************************************************************************)
(* The operations behind the LOCAL_DEVELOPMENT guard: UpdateStructureWebsite *)
(* on the structure_websites of the request's tenant, and SeoConfigFull,   *)
(* UpdateSeoConfig and GenerateSeoFavicons on its plugins collection and   *)
(* its cdn directory. Each runs to its return in one step; any database    *)
(* or file operation in it may be the one that fails.                      *)
(***************************************************************************)
\* strings.ToLower, on the letters the values of the variable are written in
UpperLetters == <<"T", "R", "U", "E", "F", "A", "L", "S">>
LowerLetters == <<"t", "r", "u", "e", "f", "a", "l", "s">>

ToLowerChar(ch) ==
  IF \E i \in DOMAIN UpperLetters : UpperLetters[i] = ch
  THEN LowerLetters[CHOOSE i \in DOMAIN UpperLetters : UpperLetters[i] = ch]
  ELSE ch

ToLower(s) == [i \in 1..Len(s) |-> ToLowerChar(s[i])]

TrueStr == <<"t", "r", "u", "e">>

\* values of LOCAL_DEVELOPMENT: unset, true in three spellings, false, true
\* after a blank, 1
LocalDevValues ==
  {EmptyStr, TrueStr, <<"T", "R", "U", "E">>, <<"T", "r", "u", "e">>,
   <<"f", "a", "l", "s", "e">>, <<" ", "t", "r", "u", "e">>, <<"1">>}

\* any value that is set enables the operations
localDevelopmentEnabledAny(value) == value # EmptyStr

\* localDevelopmentEnabled, and the same test at the head of
\* UpdateStructureWebsite
localDevelopmentEnabled(value) == ToLower(value) = TrueStr

\* every key of updates written over base, _id among them
mergeJSONDocumentsOver(base, updates) ==
  [k \in DOMAIN base \cup DOMAIN updates |->
     IF k \in DOMAIN updates THEN updates[k] ELSE base[k]]

\* mergeJSONDocuments: the keys of updates but _id are written into base,
\* object into object recursively
RECURSIVE mergeJSONDocuments(_, _)
mergeJSONDocuments(base, updates) ==
  [k \in DOMAIN base \cup (DOMAIN updates \ {"_id"}) |->
     IF k \notin DOMAIN updates \/ k = "_id" THEN base[k]
     ELSE IF updates[k].t = "obj"
     THEN VObj(mergeJSONDocuments(
                 IF k \in DOMAIN base /\ base[k].t = "obj" THEN base[k].m
                 ELSE EmptyMap,
                 updates[k].m))
     ELSE updates[k]]

\* a string no operation looks inside, kept whole
Name(s) == <<s>>

\* the path of a generated file: cdn/<client>/favicons/<folder>/<name>
VPath(folder, name) == [t |-> "path", folder |-> folder, name |-> name]

\* the text of a time in RFC 3339
VTime(at) == [t |-> "time", at |-> at]

\* the 24 hex digits of an ObjectID
HexOf(h) ==
  [i \in 1..24 |->
     HexDigits[(IF i % 2 = 1 THEN h[(i + 1) \div 2] \div 16
                ELSE h[i \div 2] % 16) + 1]]

\* bsonToJSON: relaxed extended JSON read back as JSON: an ObjectID becomes
\* {"$oid": hex}, every number a float64
RECURSIVE bsonToJSON(_)
bsonToJSON(value) ==
  IF value.t = "obj" THEN VObj([k \in DOMAIN value.m |-> bsonToJSON(value.m[k])])
  ELSE IF value.t = "arr"
  THEN VArr([i \in 1..Len(value.a) |-> bsonToJSON(value.a[i])])
  ELSE IF value.t = "oid" THEN VObj("$oid" :> VStr(HexOf(value.h)))
  ELSE IF value.t = "int" THEN VFloat(value.n)
  ELSE value

\* the plugins collection: short_name -> record; the record of the SEO
\* plugin with a configuration that lists favicons generated before
SeoShortName == Name("structure_seo")

IdPlugin == [i \in 1..12 |-> IF i = 12 THEN 33 ELSE IdHome[i]]

Favicons == Name("favicons")

NoPlugins == [n \in {} |-> EmptyMap]

SeoConfigBefore ==
  VObj(("siteName" :> VStr(Name("Acme")))
       @@ ("maxItems" :> VInt(5))
       @@ ("public" :> VArr(<<VObj(("key" :> VStr(Favicons))
                                    @@ ("generatedAt" :> VTime(0))),
                               VObj("key" :> VStr(Name("robots")))>>)))

SeoPlugin ==
  SeoShortName :> (("_id" :> VOid(IdPlugin))
                   @@ ("short_name" :> VStr(SeoShortName))
                   @@ ("config" :> SeoConfigBefore))

\* payloads of UpdateSeoConfig: null, empty, a configuration
SeoPayloads ==
  {Nil, VObj(EmptyMap), VObj("siteName" :> VStr(Name("Zenith")))}

\* identities as the caller of UpdateStructureWebsite writes them: none,
\* that of a stored document, that of none, no hex, hex after a blank
UpdateIDs ==
  {EmptyStr, HexHome, [HexHome EXCEPT ![24] = "2"], <<"x", "y", "z">>,
   <<" ">> \o HexHome}

\* a stored document with nested objects, and one more
StoredColl ==
  (IdHome :> (("_id" :> VOid(IdHome)) @@ ("slug" :> Text(<<"o", "l", "d">>))
              @@ ("order" :> VInt(1))
              @@ ("banner" :> VObj(("_id" :> Text(<<"b", "0">>))
                                   @@ ("text" :> Text(<<"o", "l", "d">>))
                                   @@ ("color" :> Text(<<"r", "e", "d">>))))
              @@ ("meta" :> VObj(("seo" :> VObj(("title" :> Text(<<"t">>))
                                                @@ ("lang" :> Text(<<"e", "n">>))))
                                 @@ ("tags" :> VArr(<<Text(<<"a">>)>>))))))
  @@ (IdOld :> (("_id" :> VOid(IdOld)) @@ ("slug" :> Text(<<"g", "o", "n", "e">>))))

\* payloads of UpdateStructureWebsite: null, empty, one field, a nested
\* object next to an _id of the payload's own, an _id that is an ObjectID
\* or a number, a scalar for banner, a field two objects deep, nested
\* objects that carry an _id of their own
UpdatePayloads ==
  {Nil, VObj(EmptyMap),
   VObj("slug" :> Text(<<"n", "e", "w">>)),
   VObj(("_id" :> VStr(<<"x", "y", "z">>))
        @@ ("banner" :> VObj("text" :> Text(<<"h", "i">>)))),
   VObj(("_id" :> VOid(IdOld)) @@ ("order" :> VInt(2))),
   VObj(("_id" :> VInt(5)) @@ ("banner" :> Text(<<"f", "l", "a", "t">>))),
   VObj("meta" :> VObj("seo" :> VObj("title" :> Text(<<"n", "e", "w">>)))),
   VObj("slug" :> VObj(("_id" :> Text(<<"s", "1">>))
                       @@ ("text" :> Text(<<"t">>)))),
   VObj("banner" :> VObj(("_id" :> Text(<<"b", "9">>))
                         @@ ("text" :> Text(<<"x">>))))}

\* uploads: none, an image, a file that is no image
NoFile == [Filename |-> Name(""), File |-> "nil"]
Uploads ==
  {NoFile, [Filename |-> Name("logo.png"), File |-> "image"],
   [Filename |-> Name("notes.txt"), File |-> "text"]}

\* the files GenerateSeoFavicons writes, in the order it writes them
FaviconFiles ==
  <<"favicon-16x16.png", "favicon-32x32.png", "favicon-48x48.png",
    "favicon-64x64.png", "favicon-128x128.png", "apple-touch-icon.png",
    "android-chrome-192x192.png", "android-chrome-256x256.png",
    "android-chrome-384x384.png", "android-chrome-512x512.png",
    "favicon.ico", "site.webmanifest", "mstile-150x150.png",
    "browserconfig.xml", "favicons-nextjs.zip">>

\* the tenant of the request
Tenant == Acme

\* what an operation returned, with the number of database calls it made
\* (utils.GetMongoDB included) and what was stored when it was called
Reply(op, args, err, result, accesses) ==
  [op |-> op, args |-> args, err |-> err, result |-> result,
   accesses |-> accesses,
   pre |-> [dbs |-> dbs, plugins |-> plugins, cdn |-> cdn]]

NoReply ==
  [op |-> "none", args |-> Nil, err |-> "", result |-> Nil, accesses |-> 0,
   pre |-> Nil]

\* the run of an operation: its error, its result, its database calls, and
\* what it leaves stored
Outcome(err, result, accesses, stored) ==
  [err |-> err, result |-> result, accesses |-> accesses, stored |-> stored]

\* UpdateStructureWebsite on the collection coll; fail names the database
\* call that fails, if one does
RunUpdateStructureWebsite(id, payload, fail, coll) ==
  IF ~localDevelopmentEnabled(localDev) THEN Outcome("guard", Nil, 0, coll)
  ELSE IF id = EmptyStr THEN Outcome("id", Nil, 0, coll)
  ELSE IF payload = Nil THEN Outcome("payload", Nil, 0, coll)
  ELSE IF fail = "connect" THEN Outcome("connect", Nil, 1, coll)
  ELSE IF ~HexOk(id) THEN Outcome("format", Nil, 1, coll)
  ELSE IF fail = "find" THEN Outcome("find", Nil, 2, coll)
  ELSE LET objectID == ObjectIDFromHex(id)
           existingDoc == IF objectID \in DOMAIN coll THEN coll[objectID]
                          ELSE ("_id" :> VOid(objectID))
           doc == Put(mergeJSONDocuments(existingDoc, payload.m),
                      "_id", VOid(objectID))
       IN  IF fail = "replace" THEN Outcome("replace", Nil, 3, coll)
           ELSE Outcome("", VObj(doc), 3, ReplaceOne(coll, doc))

\* fetchPluginConfig: FindOne on short_name
fetchPluginConfig(coll, shortName, ok) ==
  IF ~ok THEN [err |-> "find", doc |-> EmptyMap]
  ELSE IF shortName \notin DOMAIN coll THEN [err |-> "notfound", doc |-> EmptyMap]
  ELSE [err |-> "", doc |-> coll[shortName]]

\* UpdateOne without upsert: $set config on the record of shortName
SetConfig(coll, shortName, config) ==
  IF shortName \in DOMAIN coll
  THEN [coll EXCEPT ![shortName] = Put(@, "config", config)]
  ELSE coll

RunSeoConfigFull(fail, coll) ==
  IF ~localDevelopmentEnabled(localDev) THEN Outcome("guard", Nil, 0, coll)
  ELSE IF fail = "connect" THEN Outcome("connect", Nil, 1, coll)
  ELSE LET f == fetchPluginConfig(coll, SeoShortName, fail # "find")
       IN  IF f.err # "" THEN Outcome(f.err, Nil, 2, coll)
           ELSE Outcome("", bsonToJSON(VObj(f.doc)), 2, coll)

RunUpdateSeoConfig(payload, fail, coll) ==
  IF ~localDevelopmentEnabled(localDev) THEN Outcome("guard", Nil, 0, coll)
  ELSE IF fail = "connect" THEN Outcome("connect", Nil, 1, coll)
  ELSE IF payload # Nil /\ fail = "update" THEN Outcome("update", Nil, 2, coll)
  ELSE LET updated == IF payload # Nil THEN SetConfig(coll, SeoShortName, payload)
                      ELSE coll
           made == IF payload # Nil THEN 3 ELSE 2
           f == fetchPluginConfig(updated, SeoShortName, fail # "find")
       IN  IF f.err # "" THEN Outcome(f.err, Nil, made, updated)
           ELSE Outcome("", bsonToJSON(VObj(f.doc)), made, updated)

\* the files of the folder, up to the n-th
Written(folder, n) ==
  {[client |-> Tenant, folder |-> folder, name |-> FaviconFiles[i]] : i \in 1..n}

\* the entry of assetsForConf for the i-th file
AssetForConf(folder, i) ==
  VObj(("name" :> VStr(Name(FaviconFiles[i])))
       @@ ("cdnPath" :> VPath(folder, FaviconFiles[i])))

\* findAssetCDN
findAssetCDN(assets, name) ==
  IF \E i \in DOMAIN assets : assets[i].m["name"] = VStr(Name(name))
  THEN assets[CHOOSE i \in DOMAIN assets :
                /\ assets[i].m["name"] = VStr(Name(name))
                /\ \A j \in 1..(i - 1) : assets[j].m["name"] # VStr(Name(name))
             ].m["cdnPath"]
  ELSE VStr(EmptyStr)

\* the entries of config.public but those of key favicons
RECURSIVE FilterPublic(_)
FilterPublic(items) ==
  IF items = << >> THEN << >>
  ELSE (IF /\ Head(items).t = "obj"
           /\ "key" \in DOMAIN Head(items).m
           /\ Head(items).m["key"] = VStr(Favicons)
        THEN << >> ELSE <<Head(items)>>)
       \o FilterPublic(Tail(items))

\* updatePluginFavicons: the configuration with the new favicons entry at
\* the head of public and the urls of the generated files
FaviconConfig(doc, sourceFile, folder, generatedAt) ==
  LET config == IF "config" \in DOMAIN doc /\ doc["config"].t = "obj"
                THEN doc["config"].m ELSE EmptyMap
      public == IF "public" \in DOMAIN config /\ config["public"].t = "arr"
                THEN config["public"].a ELSE << >>
      assets == [i \in 1..Len(FaviconFiles) |-> AssetForConf(folder, i)]
      zip == VObj("cdnPath" :> VPath(folder, "favicons-nextjs.zip"))
      faviconsEntry ==
        VObj(("key" :> VStr(Favicons))
             @@ ("generatedAt" :> VTime(generatedAt))
             @@ ("sourceFile" :> VStr(sourceFile))
             @@ ("assets" :> VArr(assets))
             @@ ("manifestPath" :> VPath(folder, "site.webmanifest"))
             @@ ("browserConfigPath" :> VPath(folder, "browserconfig.xml"))
             @@ ("zip" :> zip))
  IN  VObj(("public" :> VArr(<<faviconsEntry>> \o FilterPublic(public)))
           @@ ("faviconUrl" :> findAssetCDN(assets, "favicon-32x32.png"))
           @@ ("appleTouchIcon" :> findAssetCDN(assets, "apple-touch-icon.png"))
           @@ ("androidIcon" :> findAssetCDN(assets, "android-chrome-192x192.png"))
           @@ ("manifestUrl" :> VPath(folder, "site.webmanifest"))
           @@ ("browserConfigUrl" :> VPath(folder, "browserconfig.xml"))
           @@ ("faviconsZip" :> zip)
           @@ ("lastFaviconGeneratedAt" :> VTime(generatedAt))
           @@ config)

\* GenerateSeoFavicons; fail names the step that fails, if one does, and
\* failing the file whose write fails; stored is the plugins collection and
\* the files of the cdn directory
RunGenerateSeoFavicons(file, fail, failing, coll, files, now) ==
  LET kept == [plugins |-> coll, cdn |-> files]
  IN  IF ~localDevelopmentEnabled(localDev) THEN Outcome("guard", Nil, 0, kept)
      ELSE IF file.File = "nil" THEN Outcome("empty", Nil, 0, kept)
      ELSE IF fail = "connect" THEN Outcome("connect", Nil, 1, kept)
      ELSE IF fail = "temp" THEN Outcome("temp", Nil, 1, kept)
      ELSE IF file.File # "image" \/ fail = "open" THEN Outcome("open", Nil, 1, kept)
      ELSE IF fail = "mkdir" THEN Outcome("mkdir", Nil, 1, kept)
      ELSE IF fail = "save"
      THEN Outcome("save", Nil, 1,
                   [kept EXCEPT !.cdn = @ \cup Written(now, failing - 1)])
      ELSE LET all == files \cup Written(now, Len(FaviconFiles))
               f == fetchPluginConfig(coll, SeoShortName, fail # "find")
           IN  IF f.err # ""
               THEN Outcome("persist", Nil, 2, [kept EXCEPT !.cdn = all])
               ELSE IF fail = "update"
               THEN Outcome("persist", Nil, 3, [kept EXCEPT !.cdn = all])
               ELSE Outcome("", VArr([i \in 1..Len(FaviconFiles) |->
                                        AssetForConf(now, i)]),
                            3,
                            [plugins |-> SetConfig(coll, SeoShortName,
                                           FaviconConfig(f.doc, file.Filename,
                                                         now, now)),
                             cdn |-> all])

\* the variables of the template fan-out but dbs, callsLeft and clock
fanoutVars == <<clients, templates, call, oidCounter, scenario, prev>>

\* an operation is requested while requests are left
Spend == 
  /\ callsLeft[1] > 0
  /\ callsLeft' = [callsLeft EXCEPT ![1] = @ - 1]

UpdateStructureWebsite(id, payload, fail) ==
  /\ Spend
  /\ \E o \in {RunUpdateStructureWebsite(id, payload, fail, dbs[Tenant])} :
       /\ dbs' = [dbs EXCEPT ![Tenant] = o.stored]
       /\ reply' = Reply("UpdateStructureWebsite", [id |-> id, payload |-> payload],
                         o.err, o.result, o.accesses)
  /\ UNCHANGED <<fanoutVars, clock, localDev, plugins, cdn, pureVars>>

SeoConfigFull(fail) ==
  /\ Spend
  /\ \E o \in {RunSeoConfigFull(fail, plugins)} :
       reply' = Reply("SeoConfigFull", Nil, o.err, o.result, o.accesses)
  /\ UNCHANGED <<fanoutVars, dbs, clock, localDev, plugins, cdn, pureVars>>

UpdateSeoConfig(payload, fail) ==
  /\ Spend
  /\ \E o \in {RunUpdateSeoConfig(payload, fail, plugins)} :
       /\ plugins' = o.stored
       /\ reply' = Reply("UpdateSeoConfig", [payload |-> payload],
                         o.err, o.result, o.accesses)
  /\ UNCHANGED <<fanoutVars, dbs, clock, localDev, cdn, pureVars>>

GenerateSeoFavicons(file, fail, failing) ==
  /\ Spend
  /\ \E o \in {RunGenerateSeoFavicons(file, fail, failing, plugins, cdn, clock + 1)} :
       /\ plugins' = o.stored.plugins
       /\ cdn' = o.stored.cdn
       /\ reply' = Reply("GenerateSeoFavicons", [file |-> file],
                         o.err, o.result, o.accesses)
  /\ clock' = clock + 1
  /\ UNCHANGED <<fanoutVars, dbs, localDev, pureVars>>

NextDev ==
  \/ \E id \in UpdateIDs, payload \in UpdatePayloads,
        fail \in {"none", "connect", "find", "replace"} :
       UpdateStructureWebsite(id, payload, fail)
  \/ \E fail \in {"none", "connect", "find"} : SeoConfigFull(fail)
  \/ \E payload \in SeoPayloads, fail \in {"none", "connect", "update", "find"} :
       UpdateSeoConfig(payload, fail)
  \/ \E file \in Uploads,
        fail \in {"none", "connect", "temp", "open", "mkdir", "save", "find", "update"},
        failing \in 1..Len(FaviconFiles) :
       GenerateSeoFavicons(file, fail, failing)

(***************************************************************************)
(* SpecDev: a request for one of the guarded operations, under any value   *)
(* of LOCAL_DEVELOPMENT.                                                    *)
(***************************************************************************)
InitDev ==
  /\ clients = << >>
  /\ templates = [k \in {} |-> Nil]
  /\ \E coll \in {EmptyColl, PriorColl, StoredColl} :
       dbs = [name \in DBNames |-> coll]
  /\ scenario = "dev"
  /\ call = [c \in Callers |-> IdleCall]
  /\ oidCounter = 0
  /\ clock = 0
  /\ callsLeft = (1 :> 1) @@ (2 :> 0)
  /\ prev = NoPrev
  /\ localDev \in LocalDevValues
  /\ plugins \in {NoPlugins, SeoPlugin}
  /\ cdn = {}
  /\ reply = NoReply
  /\ PureIdle

SpecDev == InitDev /\ [][NextDev]_vars

(***************************************************************************)
(* SpecSanitize: sanitizeTemplateDocument is applied to a document, and    *)
(* then to the skeleton it returned.                                       *)
(***************************************************************************)
\* the longest array of a document
MaxItems == 3

\* what the arrays of the documents hold: a string, a number, a boolean,
\* null, an ObjectID, arrays, and objects that share keys, one of them with
\* a scalar where others nest an object
Elements ==
  {Text(<<"x">>), VInt(7), VBool(TRUE), Nil, VOid(IdHome),
   VArr(<< >>),
   VArr(<<VObj("n" :> VFloat(2)), Text(<<"y">>)>>),
   VObj("a" :> Text(<<"x">>)),
   VObj(("a" :> VObj("x" :> VInt(1))) @@ ("b" :> VBool(TRUE))),
   VObj(("a" :> VObj(("y" :> Text(<<"s">>))
                     @@ ("deep" :> VObj("p" :> Nil))))
        @@ ("c" :> VArr(<<VInt(4), VInt(5)>>))),
   VObj("a" :> VObj("deep" :> VObj("q" :> VFloat(1))))}

\* a document with a leaf of every type, a nested object and the array items
DocWith(items) ==
  ("title" :> Text(<<"T">>)) @@ ("price" :> VFloat(2)) @@ ("stock" :> VInt(9))
  @@ ("live" :> VBool(TRUE)) @@ ("note" :> Nil) @@ ("owner" :> VOid(IdOld))
  @@ ("meta" :> VObj(("lang" :> Text(<<"e", "n">>))
                     @@ ("tags" :> VArr(<<Text(<<"a">>), Text(<<"b">>)>>))))
  @@ ("items" :> VArr(items))

SanitizerDocs == {DocWith(items) : items \in SeqsUpTo(Elements, MaxItems)}

\* the variables the sanitizer leaves alone
besideSanitizer ==
  <<clients, templates, dbs, call, oidCounter, clock, callsLeft, scenario, prev,
    devVars, googleReviews, results>>

Sanitize ==
  /\ skeleton.pass = 0
  /\ skeleton' = [pass |-> 1, first |-> sanitizeTemplateDocument(rawDoc),
                  template |-> sanitizeTemplateDocument(rawDoc)]
  /\ UNCHANGED <<rawDoc, besideSanitizer>>

Resanitize ==
  /\ skeleton.pass = 1
  /\ skeleton' = [pass |-> 2, first |-> skeleton.template,
                  template |-> sanitizeTemplateDocument(skeleton.template)]
  /\ UNCHANGED <<rawDoc, besideSanitizer>>

NextSanitize == Sanitize \/ Resanitize

InitSanitize ==
  /\ clients = << >>
  /\ templates = [k \in {} |-> Nil]
  /\ dbs = [name \in DBNames |-> EmptyColl]
  /\ scenario = "sanitize"
  /\ call = [c \in Callers |-> IdleCall]
  /\ oidCounter = 0
  /\ clock = 0
  /\ callsLeft = (1 :> 0) @@ (2 :> 0)
  /\ prev = NoPrev
  /\ localDev = EmptyStr
  /\ plugins = NoPlugins
  /\ cdn = {}
  /\ reply = NoReply
  /\ rawDoc \in SanitizerDocs
  /\ skeleton = NoSkeleton
  /\ googleReviews = << >>
  /\ results = NoResults

SpecSanitize == InitSanitize /\ [][NextSanitize]_vars

(***************************************************************************)
(* SpecReviews: FetchGoogleReviewsJSON reads the collection google_reviews *)
(* of a tenant.                                                            *)
(***************************************************************************)
\* what the array reviews of a document holds: a published review, one with
\* more fields, an unpublished one, one with an empty text, without text,
\* without status, with a status or a text of another type, and a string
ReviewValues ==
  {VObj(("status" :> VBool(TRUE)) @@ ("text" :> Text(<<"g", "o", "o", "d">>))),
   VObj(("status" :> VBool(TRUE)) @@ ("text" :> Text(<<"f", "i", "n", "e">>))
        @@ ("rating" :> VInt(5))),
   VObj(("status" :> VBool(FALSE)) @@ ("text" :> Text(<<"b", "a", "d">>))),
   VObj(("status" :> VBool(TRUE)) @@ ("text" :> Text(EmptyStr))),
   VObj("status" :> VBool(TRUE)),
   VObj("text" :> Text(<<"l", "o", "s", "t">>)),
   VObj(("status" :> Text(<<"t", "r", "u", "e">>)) @@ ("text" :> Text(<<"s">>))),
   VObj(("status" :> VBool(TRUE)) @@ ("text" :> VInt(1))),
   Text(<<"n", "o", "t", "e">>)}

\* a document of google_reviews with the array reviews, and documents whose
\* reviews is no array or is missing
ReviewDoc(reviews) ==
  ("_id" :> VOid(IdHome)) @@ ("place" :> Text(<<"P">>))
  @@ ("reviews" :> VArr(reviews))

OtherDocs ==
  {("_id" :> VOid(IdMenu)) @@ ("reviews" :> Text(<<"n", "o", "n", "e">>)),
   ("_id" :> VOid(IdMenu)) @@ ("place" :> Text(<<"Q">>))}

\* the collection: empty, one document, or one after a document without
\* an array
ReviewCollections ==
  {<< >>}
  \cup {<<ReviewDoc(r)>> : r \in SeqsUpTo(ReviewValues, MaxItems)}
  \cup {<<o, ReviewDoc(r)>> : o \in OtherDocs, r \in SeqsUpTo(ReviewValues, MaxItems)}

\* a review is kept whatever its text is
KeepReviewStatus(review) ==
  /\ review.t = "obj"
  /\ "status" \in DOMAIN review.m
  /\ review.m["status"] = VBool(TRUE)

\* the tests of the inner loop: the review is a map, its status a bool that
\* is true, its text a string that is not empty
KeepReview(review) ==
  /\ review.t = "obj"
  /\ "status" \in DOMAIN review.m
  /\ review.m["status"].t = "bool"
  /\ review.m["status"].b
  /\ "text" \in DOMAIN review.m
  /\ review.m["text"].t = "str"
  /\ review.m["text"].s # EmptyStr

\* the inner loop: filteredReviews after reviews i..Len(reviews)
RECURSIVE FilterReviews(_, _, _)
FilterReviews(filteredReviews, reviews, i) ==
  IF i > Len(reviews) THEN filteredReviews
  ELSE FilterReviews(IF KeepReview(reviews[i])
                     THEN Append(filteredReviews, reviews[i])
                     ELSE filteredReviews,
                     reviews, i + 1)

\* the loop over the documents: reviews is replaced where it is an array
\* (by a nil slice, here the empty array, where no review is kept)
FilterDocs(documents) ==
  [i \in 1..Len(documents) |->
     IF "reviews" \in DOMAIN documents[i] /\ documents[i]["reviews"].t = "arr"
     THEN Put(documents[i], "reviews",
              VArr(FilterReviews(<< >>, documents[i]["reviews"].a, 1)))
     ELSE documents[i]]

\* FetchGoogleReviewsJSON: an error where fetchAllDocuments fails, an empty
\* list where the collection is empty, the filtered documents otherwise
RunFetchGoogleReviewsJSON(documents, ok) ==
  IF ~ok THEN [err |-> "fetch", google_reviews |-> << >>]
  ELSE IF Len(documents) = 0 THEN [err |-> "", google_reviews |-> << >>]
  ELSE [err |-> "", google_reviews |-> FilterDocs(documents)]

FetchGoogleReviewsJSON(ok) ==
  /\ results = NoResults
  /\ results' = RunFetchGoogleReviewsJSON(googleReviews, ok)
  /\ UNCHANGED <<clients, templates, dbs, call, oidCounter, clock, callsLeft,
                 scenario, prev, devVars, rawDoc, skeleton, googleReviews>>

NextReviews == \E ok \in BOOLEAN : FetchGoogleReviewsJSON(ok)

InitReviews ==
  /\ clients = << >>
  /\ templates = [k \in {} |-> Nil]
  /\ dbs = [name \in DBNames |-> EmptyColl]
  /\ scenario = "reviews"
  /\ call = [c \in Callers |-> IdleCall]
  /\ oidCounter = 0
  /\ clock = 0
  /\ callsLeft = (1 :> 0) @@ (2 :> 0)
  /\ prev = NoPrev
  /\ localDev = EmptyStr
  /\ plugins = NoPlugins
  /\ cdn = {}
  /\ reply = NoReply
  /\ rawDoc = [k \in {} |-> 0]
  /\ skeleton = NoSkeleton
  /\ googleReviews \in ReviewCollections
  /\ results = NoResults

SpecReviews == InitReviews /\ [][NextReviews]_vars

(***************************************************************************)
(* Properties of the fan-out.                                              *)
(***************************************************************************)
\* the invocation of caller c has returned a summary
Succeeded(c) == call[c].pc = "done" /\ call[c].err = NoError

\* the tenants the summary names
Affected(c) == Range(call[c].summary.ClientNames)

\* the identities of the template of caller c
TemplateIDSet(c) == Range(call[c].templateIDs)

\* C1: once ApplyStructureTemplate has returned a summary, the _id values of
\* every affected tenant's structure_websites are exactly the _id values of
\* the template documents, whatever the collection held before.
C1_Convergence ==
  \A c \in Callers :
    Succeeded(c) =>
      \A name \in Affected(c) : DOMAIN dbs[name] = TemplateIDSet(c)

\* a summary was returned for a tenant that held a document outside the
\* template and lacked one of the template
C1_Witness ==
  \E c \in Callers :
    /\ Succeeded(c)
    /\ \E name \in Affected(c) :
         /\ IdOld \in DOMAIN call[c].preDbs[name]
         /\ IdOld \notin DOMAIN dbs[name]
         /\ \E id \in TemplateIDSet(c) :
              id \notin DOMAIN call[c].preDbs[name] /\ id \in DOMAIN dbs[name]

\* the cursor positions whose upserts have all been issued by caller c
UpsertedPositions(c) ==
  {p \in 1..Len(call[c].cursor) :
     Cardinality({k \in DOMAIN call[c].log :
                    call[c].log[k].op = "upsert" /\ call[c].log[k].pos = p})
       = Len(call[c].sanitizedDocs)}

\* the tenants whose upsert phase caller c has completed
UpsertedTenants(c) ==
  {call[c].log[k].db : k \in {j \in DOMAIN call[c].log :
                                call[c].log[j].pos \in UpsertedPositions(c)}}

\* C2: wherever a fan-out stops after the upserts of a tenant, before or
\* after the delete, every template identity is in that tenant's collection.
C2_UpsertsNeverLost ==
  \A c \in Callers :
    \A name \in UpsertedTenants(c) : TemplateIDSet(c) \subseteq DOMAIN dbs[name]

\* between the upserts and the delete: the template is there, and so is an
\* old document
C2_Witness ==
  \E c \in Callers :
    /\ call[c].pc = "delete"
    /\ call[c].clientName \in UpsertedTenants(c)
    /\ TemplateIDSet(c) \subseteq DOMAIN dbs[call[c].clientName]
    /\ IdOld \in DOMAIN dbs[call[c].clientName]

\* C5: a field of the tenant's prior document X that the template document
\* X does not have is absent from the tenant's document X after the fan-out.
C5_ReplaceNotMerge ==
  \A c \in Callers :
    Succeeded(c) =>
      \A name \in Affected(c) :
        \A i \in DOMAIN call[c].sanitizedDocs :
          LET id == call[c].templateIDs[i]
          IN  id \in DOMAIN call[c].preDbs[name] =>
                \A field \in (DOMAIN call[c].preDbs[name][id])
                               \ (DOMAIN call[c].sanitizedDocs[i]) :
                  field \notin DOMAIN dbs[name][id]

\* the tenant's prior document had the field banner, the template's has not
C5_Witness ==
  \E c \in Callers :
    /\ Succeeded(c)
    /\ IdHome \in TemplateIDSet(c)
    /\ \E name \in Affected(c) :
         /\ IdHome \in DOMAIN call[c].preDbs[name]
         /\ "banner" \in DOMAIN call[c].preDbs[name][IdHome]
         /\ "banner" \notin DOMAIN dbs[name][IdHome]

\* C3: within one fan-out the writes go tenant by tenant: all upserts of a
\* tenant, then its single delete, and only then the next tenant; no write
\* to a tenant follows that tenant's delete.
C3_TenantByTenant ==
  \A c \in Callers :
    \A i, j \in DOMAIN call[c].log :
      i < j =>
        IF call[c].log[i].db = call[c].log[j].db
        THEN call[c].log[i].op = "upsert"
        ELSE \E k \in i..(j - 1) :
               /\ call[c].log[k].db = call[c].log[i].db
               /\ call[c].log[k].op = "delete"

\* the template as a collection: per identity, the last document that has it
TemplateColl(c) ==
  [id \in TemplateIDSet(c) |->
     call[c].sanitizedDocs[
       CHOOSE i \in DOMAIN call[c].templateIDs :
         /\ call[c].templateIDs[i] = id
         /\ \A j \in DOMAIN call[c].templateIDs :
              call[c].templateIDs[j] = id => j <= i]]

\* the upserts caller c has issued at the cursor position it is at
UpsertsHere(c) ==
  Cardinality({k \in DOMAIN call[c].log :
                 call[c].log[k].op = "upsert" /\ call[c].log[k].pos = call[c].pos})

\* C7: when an upsert or the delete of a tenant fails, the one error returned
\* names that tenant, no later tenant has been written, the tenants processed
\* before keep the template, and so does the failing tenant for the upserts
\* already applied to it.
C7_AbortOnTenantFailure ==
  \A c \in Callers :
    (call[c].pc = "done" /\ call[c].err.kind \in {"upsert", "delete"}) =>
      /\ Returned(call[c]).summary = Nil
      /\ call[c].err.client = call[c].clientName
      /\ call[c].pos \in DOMAIN call[c].cursor
      /\ call[c].clientName = TrimSpace(call[c].cursor[call[c].pos])
      /\ \A k \in DOMAIN call[c].log : call[c].log[k].pos <= call[c].pos
      /\ \A name \in DBNames :
           name \notin {call[c].log[k].db : k \in DOMAIN call[c].log} =>
             dbs[name] = call[c].preDbs[name]
      /\ \A name \in Affected(c) : dbs[name] = TemplateColl(c)
      /\ \A i \in 1..UpsertsHere(c) :
           /\ call[c].templateIDs[i] \in DOMAIN dbs[call[c].clientName]
           /\ dbs[call[c].clientName][call[c].templateIDs[i]]
                = TemplateColl(c)[call[c].templateIDs[i]]

\* the second tenant of the cursor fails after an upsert was applied to it;
\* the first one was processed
C7_Witness ==
  \E c \in Callers :
    /\ call[c].pc = "done"
    /\ call[c].err.kind = "upsert"
    /\ call[c].pos = 2
    /\ UpsertsHere(c) = 1
    /\ Affected(c) # {}
    /\ call[c].clientName \notin Affected(c)
    /\ dbs[call[c].clientName] # call[c].preDbs[call[c].clientName]

ValidationKinds == {"templateKey", "empty", "document", "unusable"}

\* a document whose _id is a string that is not an identity
Malformed(doc) ==
  /\ doc # Nil
  /\ "_id" \in DOMAIN doc.m
  /\ doc.m["_id"].t = "str"
  /\ TrimSpace(doc.m["_id"].s) # EmptyStr
  /\ ~HexOk(TrimSpace(doc.m["_id"].s))

\* an input the validation is to reject
Rejected(input) ==
  \/ input.key = ""
  \/ \A i \in DOMAIN input.docs : input.docs[i] = Nil
  \/ \E i \in DOMAIN input.docs : Malformed(input.docs[i])

\* C8: with an empty template name, with no document other than nulls, or
\* with a document whose _id is malformed, the call returns an error and
\* neither the template registry nor any tenant collection is written.
C8_ValidationNoWrite ==
  \A c \in Callers :
    (call[c].pc # "idle" /\ Rejected(call[c].input)) =>
      /\ call[c].pc = "done"
      /\ call[c].err.kind \in ValidationKinds
      /\ Returned(call[c]).summary = Nil
      /\ call[c].log = << >>
      /\ dbs = call[c].preDbs
      /\ templates = call[c].preTemplates

\* the malformed document is the second of the list, after a usable one
C8_Witness ==
  \E c \in Callers :
    /\ call[c].pc = "done"
    /\ call[c].err.kind = "document"
    /\ Len(call[c].input.docs) >= 2
    /\ call[c].input.docs[1] # Nil
    /\ ~Malformed(call[c].input.docs[1])
    /\ Malformed(call[c].input.docs[2])

\* C9: when the write of the template record fails the call fails and no
\* tenant collection is written by it; the registry write precedes every
\* tenant write.
C9_StoreFailureAborts ==
  \A c \in Callers :
    /\ (call[c].pc = "done" /\ call[c].err.kind = "store") =>
         /\ Returned(call[c]).summary = Nil
         /\ call[c].log = << >>
         /\ dbs = call[c].preDbs
    /\ call[c].log # << >> =>
         /\ call[c].input.key \in DOMAIN templates
         /\ templates[call[c].input.key].documents = call[c].sanitizedDocs

\* the registry write failed with a tenant registered for the template
C9_Witness ==
  \E c \in Callers :
    /\ call[c].pc = "done"
    /\ call[c].err.kind = "store"
    /\ \E i \in DOMAIN clients :
         /\ Matches(clients[i], call[c].effectiveField, call[c].input.key)
         /\ TrimSpace(clients[i].client_name) # EmptyStr

\* the tenants registered for templateKey through field
Registered(field, templateKey) ==
  {TrimSpace(clients[i].client_name) :
     i \in {j \in DOMAIN clients : Matches(clients[j], field, templateKey)}}
  \ {EmptyStr}

\* no registration on the default field, at least one on the legacy field
FallbackCase(c) ==
  /\ call[c].input.field = Nil
  /\ CountDocuments(StructureTemplateField, call[c].input.key) = 0
  /\ CountDocuments(LegacyField, call[c].input.key) >= 1

\* C10: with the default target field, no registration matching on it and at
\* least one matching on the legacy field template, the fan-out goes to the
\* legacy-field tenants and the legacy field is the effective field.
C10_LegacyFallback ==
  \A c \in Callers :
    (Succeeded(c) /\ FallbackCase(c)) =>
      /\ call[c].effectiveField = LegacyField
      /\ Returned(call[c]).summary.TargetField = LegacyField
      /\ Affected(c) = Registered(LegacyField, call[c].input.key)
      /\ \A name \in Registered(LegacyField, call[c].input.key) :
           dbs[name] = TemplateColl(c)

\* a legacy-field tenant received the template
C10_Witness ==
  \E c \in Callers :
    /\ Succeeded(c)
    /\ FallbackCase(c)
    /\ Affected(c) # {}
    /\ \E name \in Affected(c) : call[c].preDbs[name] # dbs[name]

\* a template document that carries its identity: a native ObjectId or a
\* non-blank string
HasID(doc) ==
  /\ "_id" \in DOMAIN doc.m
  /\ \/ doc.m["_id"].t = "oid"
     \/ doc.m["_id"].t = "str" /\ TrimSpace(doc.m["_id"].s) # EmptyStr

\* caller c has completed the same request the previous, successful, call made
Reapplied(c) ==
  /\ Succeeded(c)
  /\ prev.returned = "summary"
  /\ prev.input = call[c].input

\* the outcome of the re-application is that of the first application, and
\* nothing was deleted
SameOutcome(c) ==
  /\ dbs = prev.dbs
  /\ call[c].summary.ClientNames = prev.summary.ClientNames
  /\ call[c].summary.UpdatedDocuments = prev.summary.UpdatedDocuments
  /\ call[c].summary.DeletedDocuments = 0

\* C6 as stated: applying the same arguments a second time, with nothing
\* written in between, leaves every tenant collection as the first
\* application left it, reports the same tenants and updated count, and
\* deletes nothing.
C6_ReapplyStable == \A c \in Callers : Reapplied(c) => SameOutcome(c)

\* C6: applying the same arguments a second time, every document of which
\* carries its _id, with nothing written in between, leaves every tenant
\* collection as the first application left it, reports the same tenants and
\* updated count, and deletes nothing.
C6_ReapplyStableWithIDs ==
  \A c \in Callers :
    (Reapplied(c) /\ \A i \in DOMAIN call[c].input.docs : HasID(call[c].input.docs[i]))
      => SameOutcome(c)

\* the first application changed a tenant and deleted from it; the second
\* has completed
C6_Witness ==
  \E c \in Callers :
    /\ Reapplied(c)
    /\ \A i \in DOMAIN call[c].input.docs : HasID(call[c].input.docs[i])
    /\ Affected(c) # {}
    /\ prev.summary.DeletedDocuments > 0
    /\ call[c].summary.UpdatedDocuments > 0

\* two callers have completed different templates for the tenant
BothApplied ==
  /\ \A c \in Callers : Succeeded(c) /\ Acme \in Affected(c)
  /\ TemplateColl(1) # TemplateColl(2)

\* C4 as stated: after two concurrent calls with different document sets for
\* one tenant have completed, the tenant's collection is the document set of
\* one of the two calls.
C4_OneCallWins ==
  BothApplied => \E c \in Callers : dbs[Acme] = TemplateColl(c)

\* C4: after two concurrent calls with different document sets for one tenant
\* have completed, every document of the tenant's collection is the template
\* document of one of the calls for that identity (per document the last
\* writer wins), and every identity both templates have is present.
C4_LastWriterPerDocument ==
  BothApplied =>
    /\ \A id \in DOMAIN dbs[Acme] :
         \E c \in Callers :
           id \in TemplateIDSet(c) /\ dbs[Acme][id] = TemplateColl(c)[id]
    /\ (TemplateIDSet(1) \cap TemplateIDSet(2)) \subseteq DOMAIN dbs[Acme]

\* both calls completed and the collection is neither template: it holds a
\* document of the one next to a document of the other
C4_Witness ==
  /\ BothApplied
  /\ \A c \in Callers : dbs[Acme] # TemplateColl(c)
  /\ \E id1, id2 \in DOMAIN dbs[Acme] :
       /\ id1 \in TemplateIDSet(1) /\ dbs[Acme][id1] = TemplateColl(1)[id1]
       /\ id2 \in TemplateIDSet(2) /\ dbs[Acme][id2] = TemplateColl(2)[id2]

\* the summary of a fan-out that found no tenant: nothing counted, nothing
\* written
NothingApplied(c) ==
  /\ call[c].summary.ClientNames = << >>
  /\ call[c].summary.UpdatedDocuments = 0
  /\ call[c].summary.DeletedDocuments = 0
  /\ dbs = call[c].preDbs

\* the caller's field is reported, and with no registration on it nothing
\* is applied
CallerFieldFinal(c) ==
  /\ call[c].summary.TargetField = TrimSpace(call[c].input.field.s)
  /\ CountDocuments(TrimSpace(call[c].input.field.s), call[c].input.key) = 0
       => NothingApplied(c)

\* C11 as stated: when the caller supplies targetField, whatever its value,
\* the effective field reported is the caller's and there is no fallback:
\* with no tenant registered on it the call succeeds with no tenant affected,
\* nothing counted and nothing written.
C11_ExplicitFieldFinal ==
  \A c \in Callers :
    (Succeeded(c) /\ call[c].input.field # Nil) => CallerFieldFinal(c)

\* the caller's field is one other than the default
Overridden(c) ==
  /\ call[c].input.field # Nil
  /\ TrimSpace(call[c].input.field.s) \notin {EmptyStr, StructureTemplateField}

\* C11: when the caller supplies a targetField that, trimmed, is neither
\* empty nor structure_template, the effective field reported is the caller's
\* and there is no fallback: with no tenant registered on it the call succeeds
\* with no tenant affected, nothing counted and nothing written.
C11_OverriddenFieldFinal ==
  \A c \in Callers : (Succeeded(c) /\ Overridden(c)) => CallerFieldFinal(c)

\* a call on a field of the caller's that matches nothing has succeeded while
\* a tenant is registered on the legacy field
C11_Witness ==
  \E c \in Callers :
    /\ Succeeded(c)
    /\ Overridden(c)
    /\ CountDocuments(TrimSpace(call[c].input.field.s), call[c].input.key) = 0
    /\ CountDocuments(LegacyField, call[c].input.key) >= 1
    /\ NothingApplied(c)

\* C12: a fan-out on the default field that matches a registration writes
\* only to the tenants registered on that field: a tenant registered through
\* the legacy field only, like every other tenant not registered on the
\* default field, is not named in the summary and keeps its collection.
C12_OnlyMatchedTenants ==
  \A c \in Callers :
    /\ \A k \in DOMAIN call[c].log :
         call[c].log[k].db \in Registered(call[c].effectiveField, call[c].input.key)
    /\ (/\ Succeeded(c)
        /\ call[c].input.field = Nil
        /\ CountDocuments(StructureTemplateField, call[c].input.key) >= 1) =>
         /\ call[c].summary.TargetField = StructureTemplateField
         /\ \A name \in DBNames \ Registered(StructureTemplateField, call[c].input.key) :
              /\ name \notin Affected(c)
              /\ dbs[name] = call[c].preDbs[name]

\* a tenant registered on the default field was written while another was
\* registered on the legacy field only
C12_Witness ==
  \E c \in Callers :
    /\ Succeeded(c)
    /\ call[c].input.field = Nil
    /\ \E name \in Registered(LegacyField, call[c].input.key)
                     \ Registered(StructureTemplateField, call[c].input.key) :
         dbs[name] = call[c].preDbs[name]
    /\ \E name \in Affected(c) : dbs[name] # call[c].preDbs[name]

\* the writes of caller c to the tenant name, by kind
WritesTo(c, name, op) ==
  Cardinality({k \in DOMAIN call[c].log :
                 call[c].log[k].db = name /\ call[c].log[k].op = op})

\* C13: the tenant names are deduplicated: when several registrations yield
\* the same trimmed client_name, the summary names that tenant once, the
\* tenant gets one upsert per template document and one delete, and its
\* upserts are counted once.
C13_TenantsDeduplicated ==
  \A c \in Callers :
    Succeeded(c) =>
      /\ \A i, j \in DOMAIN call[c].summary.ClientNames :
           i # j => call[c].summary.ClientNames[i] # call[c].summary.ClientNames[j]
      /\ \A name \in Affected(c) :
           /\ WritesTo(c, name, "upsert") = Len(call[c].sanitizedDocs)
           /\ WritesTo(c, name, "delete") = 1
      /\ call[c].summary.UpdatedDocuments
           = Cardinality(Affected(c)) * Len(call[c].sanitizedDocs)

\* C14: the tenant names of a returned summary are in lexicographic order
\* whatever the order of the cursor, each is trimmed, and a registration
\* whose client_name is empty or blank is skipped: it is not named and no
\* database is written for it.
C14_SortedTrimmedNames ==
  \A c \in Callers :
    /\ \A k \in DOMAIN call[c].log :
         /\ call[c].log[k].db # EmptyStr
         /\ call[c].log[k].db = TrimSpace(call[c].cursor[call[c].log[k].pos])
    /\ Succeeded(c) =>
         /\ \A i, j \in DOMAIN call[c].summary.ClientNames :
              i < j => ~StrLess(call[c].summary.ClientNames[j],
                                call[c].summary.ClientNames[i])
         /\ \A name \in Affected(c) : name # EmptyStr /\ name = TrimSpace(name)
         /\ Affected(c) = {TrimSpace(call[c].cursor[i]) : i \in DOMAIN call[c].cursor}
                            \ {EmptyStr}
         /\ Len(call[c].summary.ClientNames)
              = Cardinality({i \in DOMAIN call[c].cursor :
                               TrimSpace(call[c].cursor[i]) # EmptyStr})

\* the cursor returned a tenant before one that sorts ahead of it and whose
\* name is padded
C14_Witness ==
  \E c \in Callers :
    /\ Succeeded(c)
    /\ Len(call[c].cursor) = 2
    /\ call[c].cursor[2] # TrimSpace(call[c].cursor[2])
    /\ StrLess(TrimSpace(call[c].cursor[2]), TrimSpace(call[c].cursor[1]))
    /\ Len(call[c].summary.ClientNames) = 2

\* the documents the tenants in names held before the call of caller c
\* under identities outside the template, in all
RECURSIVE OutdatedBefore(_, _)
OutdatedBefore(c, names) ==
  IF names = {} THEN 0
  ELSE LET name == CHOOSE n \in names : TRUE
       IN  Cardinality(Outdated(call[c].preDbs[name], call[c].templateIDs))
             + OutdatedBefore(c, names \ {name})

\* C15: on success updatedCount is the number of affected tenants times the
\* number of usable template documents, and deletedCount is the number of
\* documents the affected tenants held before the call under identities
\* outside the template.
C15_Counts ==
  \A c \in Callers :
    Succeeded(c) =>
      /\ call[c].summary.UpdatedDocuments
           = Cardinality(Affected(c)) * Len(call[c].sanitizedDocs)
      /\ call[c].summary.DeletedDocuments = OutdatedBefore(c, Affected(c))

\* the template record of caller c is in the registry
Stored(c) ==
  call[c].pc \in {"find", "next", "upsert", "delete"} \/ Succeeded(c)

\* C16: within one application a template document submitted without _id
\* has one generated identity, its own: the skeleton carries it, the stored
\* template record carries it, and every affected tenant holds the document
\* under it after the upserts and the delete.
C16_OneGeneratedIdentity ==
  \A c \in Callers :
    (call[c].pc # "idle" /\ call[c].err.kind \notin ValidationKinds) =>
      \A i \in DOMAIN call[c].input.docs :
        ~HasID(call[c].input.docs[i]) =>
          /\ call[c].sanitizedDocs[i]["_id"] = VOid(call[c].templateIDs[i])
          /\ \A j \in DOMAIN call[c].templateIDs :
               j # i => call[c].templateIDs[j] # call[c].templateIDs[i]
          /\ Stored(c) =>
               templates[call[c].input.key].documents[i]["_id"]
                 = VOid(call[c].templateIDs[i])
          /\ Succeeded(c) =>
               \A name \in Affected(c) :
                 /\ call[c].templateIDs[i] \in DOMAIN dbs[name]
                 /\ dbs[name][call[c].templateIDs[i]] = call[c].sanitizedDocs[i]

\* a template of two documents without _id has been applied to two tenants
C16_Witness ==
  \E c \in Callers :
    /\ Succeeded(c)
    /\ Len(call[c].input.docs) = 2
    /\ \A i \in DOMAIN call[c].input.docs : ~HasID(call[c].input.docs[i])
    /\ Cardinality(Affected(c)) = 2

\* the identity that document doc is to resolve to, where it carries one
GivenID(doc) ==
  IF doc.m["_id"].t = "oid" THEN doc.m["_id"].h
  ELSE ObjectIDFromHex(TrimSpace(doc.m["_id"].s))

\* C17: a template document without _id, or with a string _id that is blank,
\* gets a newly generated identity; a string that is a valid identity gets
\* that identity; a string that is not rejects the call with the document
\* error; a native identity is used as it is. The skeleton's _id is the
\* resolved identity.
C17_IdentityResolution ==
  \A c \in Callers :
    call[c].pc # "idle" =>
      /\ (\E i \in DOMAIN call[c].input.docs : Malformed(call[c].input.docs[i]))
           <=> (call[c].pc = "done" /\ call[c].err.kind = "document")
      /\ call[c].err.kind # "document" =>
           \A i \in DOMAIN call[c].input.docs :
             /\ call[c].sanitizedDocs[i]["_id"] = VOid(call[c].templateIDs[i])
             /\ IF HasID(call[c].input.docs[i])
                THEN call[c].templateIDs[i] = GivenID(call[c].input.docs[i])
                ELSE /\ call[c].templateIDs[i]
                          \in {NewObjectID(n) : n \in 1..oidCounter}
                     /\ \A j \in DOMAIN call[c].templateIDs :
                          j # i => call[c].templateIDs[j] # call[c].templateIDs[i]

\* a document with a blank _id and one with a padded hex string passed the
\* validation
C17_Witness ==
  \E c \in Callers :
    /\ call[c].pc = "count"
    /\ \E i, j \in DOMAIN call[c].input.docs :
         /\ call[c].input.docs[i] = DocBlankId
         /\ call[c].input.docs[j] = DocPaddedId
         /\ call[c].templateIDs[j] = IdMenu

\* the registry holds the record of caller c's template as the only change
\* to what it held before the call: created or overwritten, nothing added
\* to it
RecordOverwritten(c) ==
  /\ DOMAIN templates = DOMAIN call[c].preTemplates \cup {call[c].input.key}
  /\ \A k \in DOMAIN call[c].preTemplates :
       k # call[c].input.key => templates[k] = call[c].preTemplates[k]
  /\ templates[call[c].input.key].template_key = call[c].input.key
  /\ templates[call[c].input.key].documents = call[c].sanitizedDocs

\* caller c applies again what the previous call applied
SameAsPrevious(c) ==
  /\ prev.returned = "summary"
  /\ prev.input = call[c].input
  /\ call[c].input.key \in DOMAIN call[c].preTemplates

\* the record is the one the registry held, but for updated_at
RecordUnchanged(c) ==
  /\ templates[call[c].input.key].template_key
       = call[c].preTemplates[call[c].input.key].template_key
  /\ templates[call[c].input.key].documents
       = call[c].preTemplates[call[c].input.key].documents

\* C18 as stated: the registry holds one record per template name, created
\* by the first application and overwritten by every later one, and applying
\* the same name with the same documents again leaves the record as it was
\* but for updated_at.
C18_RegistryRecord ==
  \A c \in Callers :
    Stored(c) =>
      /\ RecordOverwritten(c)
      /\ SameAsPrevious(c) => RecordUnchanged(c)

\* C18: the registry holds one record per template name, created by the
\* first application and overwritten by every later one, and applying the
\* same name with the same documents again, every document carrying its _id,
\* leaves the record as it was but for updated_at.
C18_RegistryRecordWithIDs ==
  \A c \in Callers :
    Stored(c) =>
      /\ RecordOverwritten(c)
      /\ (/\ SameAsPrevious(c)
          /\ \A i \in DOMAIN call[c].input.docs : HasID(call[c].input.docs[i]))
           => RecordUnchanged(c)

\* a template whose documents carry their _id is in the registry a second
\* time, under a later updated_at
C18_Witness ==
  \E c \in Callers :
    /\ Stored(c)
    /\ SameAsPrevious(c)
    /\ \A i \in DOMAIN call[c].input.docs : HasID(call[c].input.docs[i])
    /\ templates[call[c].input.key].updated_at
         > call[c].preTemplates[call[c].input.key].updated_at

(***************************************************************************)
(* Properties of the guarded operations.                                   *)
(***************************************************************************)
GuardedOperations ==
  {"UpdateStructureWebsite", "SeoConfigFull", "UpdateSeoConfig",
   "GenerateSeoFavicons"}

\* the value is true, in whatever case each letter is written
IsTrueAnyCase(value) ==
  /\ Len(value) = 4
  /\ value[1] \in {"t", "T"}
  /\ value[2] \in {"r", "R"}
  /\ value[3] \in {"u", "U"}
  /\ value[4] \in {"e", "E"}

\* what was stored when the last operation was called is what is stored now
NothingChanged ==
  /\ dbs = reply.pre.dbs
  /\ plugins = reply.pre.plugins
  /\ cdn = reply.pre.cdn

\* C19: when LOCAL_DEVELOPMENT is not true, compared without regard to
\* case, each of UpdateStructureWebsite, SeoConfigFull, UpdateSeoConfig and
\* GenerateSeoFavicons returns the guard's error before any database access
\* and changes nothing stored; when it is true in any case, the guard lets
\* the operation through.
C19_LocalDevGuard ==
  reply.op \in GuardedOperations =>
    IF IsTrueAnyCase(localDev)
    THEN reply.err # "guard"
    ELSE /\ reply.err = "guard"
         /\ reply.accesses = 0
         /\ NothingChanged

\* UpdateSeoConfig was called with a configuration, on a tenant whose SEO
\* plugin is registered, under LOCAL_DEVELOPMENT=false, and was refused
C19_Witness ==
  /\ reply.op = "UpdateSeoConfig"
  /\ reply.args.payload \notin {Nil, VObj(EmptyMap)}
  /\ SeoShortName \in DOMAIN plugins
  /\ localDev = <<"f", "a", "l", "s", "e">>
  /\ reply.err = "guard"

\* the request UpdateStructureWebsite has to refuse: no id, no payload or a
\* payload without fields, or an id that is no identity
Refusable(args) ==
  \/ args.id = EmptyStr
  \/ args.payload = Nil
  \/ args.payload = VObj(EmptyMap)
  \/ ~HexOk(args.id)

\* C20: in local-development mode UpdateStructureWebsite fails, and writes
\* nothing, if the id is empty, if the payload is nil or has no fields, or
\* if the id does not parse as an identity.
C20_UpdateRefused ==
  (/\ reply.op = "UpdateStructureWebsite"
   /\ localDevelopmentEnabled(localDev)
   /\ Refusable(reply.args))
    => /\ reply.err # ""
       /\ dbs = reply.pre.dbs

\* the document UpdateStructureWebsite found under the id of the last
\* request, or the one it starts from when it found none
ExistingDoc ==
  LET objectID == ObjectIDFromHex(reply.args.id)
      coll == reply.pre.dbs[Tenant]
  IN  IF objectID \in DOMAIN coll THEN coll[objectID]
      ELSE ("_id" :> VOid(objectID))

\* the last request was an UpdateStructureWebsite that stored a document
Updated == reply.op = "UpdateStructureWebsite" /\ reply.err = ""

\* C21: the payload merge keeps the identity: whatever the payload holds
\* under _id, the merged document has the _id of the existing one, and the
\* document UpdateStructureWebsite stores and returns has the identity
\* parsed from the id argument.
C21_MergeKeepsIdentity ==
  Updated =>
    LET objectID == ObjectIDFromHex(reply.args.id)
        merged == mergeJSONDocuments(ExistingDoc, reply.args.payload.m)
    IN  /\ "_id" \in DOMAIN merged
        /\ merged["_id"] = ExistingDoc["_id"]
        /\ reply.result.m["_id"] = VOid(objectID)
        /\ objectID \in DOMAIN dbs[Tenant]
        /\ dbs[Tenant][objectID] = reply.result.m

\* a stored document was updated with a payload whose _id is another
\* identity
C21_Witness ==
  /\ Updated
  /\ ObjectIDFromHex(reply.args.id) \in DOMAIN reply.pre.dbs[Tenant]
  /\ "_id" \in DOMAIN reply.args.payload.m
  /\ reply.args.payload.m["_id"] = VOid(IdOld)

\* the value the payload merge is to leave under a key of the update: the
\* merge of the two objects, key by key, where both sides hold an object,
\* and the incoming value otherwise
RECURSIVE MergedAt(_, _, _)
MergedAt(existing, update, k) ==
  IF /\ k \in DOMAIN existing
     /\ existing[k].t = "obj"
     /\ update[k].t = "obj"
  THEN VObj([x \in DOMAIN existing[k].m \cup DOMAIN update[k].m |->
               IF x \in DOMAIN update[k].m
               THEN MergedAt(existing[k].m, update[k].m, x)
               ELSE existing[k].m[x]])
  ELSE update[k]

\* C22: after a payload merge every key of the update but the top-level
\* _id holds the recursive merge of the two objects where the existing
\* document and the update both hold an object, and otherwise exactly the
\* incoming value, a nested object with every key of its own, _id included.
C22_PayloadMerge ==
  Updated =>
    \A k \in DOMAIN reply.args.payload.m \ {"_id"} :
      /\ k \in DOMAIN reply.result.m
      /\ reply.result.m[k] = MergedAt(ExistingDoc, reply.args.payload.m, k)

\* no object of the update, at any depth, has a key _id
RECURSIVE NoNestedID(_)
NoNestedID(update) ==
  \A k \in DOMAIN update :
    update[k].t = "obj" =>
      "_id" \notin DOMAIN update[k].m /\ NoNestedID(update[k].m)

\* the keys of existing that the update does not have are in result with
\* their values, at the top and in every object merged with an object
RECURSIVE Kept(_, _, _)
Kept(existing, update, result) ==
  \A k \in DOMAIN existing :
    IF k \notin DOMAIN update
    THEN k \in DOMAIN result /\ result[k] = existing[k]
    ELSE (existing[k].t = "obj" /\ update[k].t = "obj") =>
           /\ k \in DOMAIN result
           /\ result[k].t = "obj"
           /\ Kept(existing[k].m, update[k].m, result[k].m)

\* C30: UpdateStructureWebsite updates in part: a key of the stored
\* document that the payload does not have keeps its value in the document
\* stored and returned, at the top level and in every nested object merged
\* with an object; where no document has the id, the document created
\* holds the id and the fields of the payload.
C30_PartialUpdate ==
  Updated =>
    LET objectID == ObjectIDFromHex(reply.args.id)
    IN  /\ Kept(ExistingDoc, reply.args.payload.m, reply.result.m)
        /\ dbs[Tenant][objectID] = reply.result.m
        /\ objectID \notin DOMAIN reply.pre.dbs[Tenant] =>
             reply.result.m = Put(reply.args.payload.m, "_id", VOid(objectID))

\* C28: a field of a template document whose value is an empty string or
\* null is ignored: the document written to each tenant does not have the
\* field.
C28_EmptyFieldsOmitted ==
  \A c \in Callers :
    Succeeded(c) =>
      \A name \in Affected(c) :
        \A i \in DOMAIN call[c].input.docs :
          \A k \in DOMAIN call[c].input.docs[i].m \ {"_id"} :
            call[c].input.docs[i].m[k] \in {VStr(EmptyStr), Nil} =>
              k \notin DOMAIN dbs[name][call[c].templateIDs[i]]

(***************************************************************************)
(* Properties of the sanitizer.                                            *)
(***************************************************************************)
\* the elements of the array items of the document handed in, and the
\* array that stands for them in the skeleton
Items == rawDoc["items"].a

SkeletonItems == skeleton.first["items"].a

\* C23: the sanitizer is idempotent: the skeleton of a skeleton is that
\* skeleton, for documents with nested objects and arrays that mix scalars,
\* objects and arrays.
C23_SanitizeIdempotent ==
  skeleton.pass = 2 => skeleton.template = skeleton.first

\* the skeleton of an array that holds a scalar, an object and an array was
\* sanitized again
C23_Witness ==
  /\ skeleton.pass = 2
  /\ \E i, j, k \in DOMAIN Items :
       /\ Items[i].t = "obj"
       /\ Items[j].t = "arr"
       /\ Items[k].t \in {"str", "int", "bool"}

\* every leaf of v is the empty string, false or 0
RECURSIVE ZeroLeaves(_)
ZeroLeaves(v) ==
  IF v.t = "obj" THEN \A k \in DOMAIN v.m : ZeroLeaves(v.m[k])
  ELSE IF v.t = "arr" THEN \A i \in DOMAIN v.a : ZeroLeaves(v.a[i])
  ELSE v \in {VStr(EmptyStr), VBool(FALSE), VInt(0)}

\* what a leaf is to become
ZeroOf(v) ==
  IF v.t \in {"str", "nil"} THEN VStr(EmptyStr)
  ELSE IF v.t = "bool" THEN VBool(FALSE)
  ELSE IF v.t \in {"int", "float"} THEN VInt(0)
  ELSE VStr(EmptyStr)

\* sk has the keys of src, object by object, and at each leaf of src the
\* zero of that leaf
RECURSIVE Erased(_, _)
Erased(src, sk) ==
  IF src.t = "obj"
  THEN /\ sk.t = "obj"
       /\ DOMAIN sk.m = DOMAIN src.m
       /\ \A k \in DOMAIN src.m : Erased(src.m[k], sk.m[k])
  ELSE IF src.t = "arr" THEN sk.t = "arr"
  ELSE sk = ZeroOf(src)

\* C25: the sanitizer returns a skeleton for every document: a string or
\* null leaf has become the empty string, a boolean false, a number 0, a
\* leaf of another type the empty string, and no leaf of the skeleton holds
\* anything else.
C25_LeavesErased ==
  skeleton.pass >= 1 =>
    /\ Erased(VObj(rawDoc), VObj(skeleton.first))
    /\ ZeroLeaves(VObj(skeleton.first))

\* a document whose array begins with an ObjectID and goes on was sanitized
C25_Witness ==
  /\ skeleton.pass = 1
  /\ Len(Items) >= 2
  /\ Items[1] = VOid(IdHome)
  /\ Items[2].t = "obj"

\* no array of v has two elements
RECURSIVE AtMostOne(_)
AtMostOne(v) ==
  IF v.t = "obj" THEN \A k \in DOMAIN v.m : AtMostOne(v.m[k])
  ELSE IF v.t = "arr"
  THEN Len(v.a) <= 1 /\ \A i \in DOMAIN v.a : AtMostOne(v.a[i])
  ELSE TRUE

\* the deep merge of the skeletons of items[1] .. items[n]
RECURSIVE MergeAll(_, _)
MergeAll(items, n) ==
  IF n = 1 THEN buildTemplateValue(items[1])
  ELSE mergeTemplateValues(MergeAll(items, n - 1), buildTemplateValue(items[n]))

\* the arrays of src, object by object, are in sk empty where they are
\* empty and hold the merge of their sanitized elements where they are not
RECURSIVE ArrayRule(_, _)
ArrayRule(src, sk) ==
  IF src.t = "obj"
  THEN /\ sk.t = "obj"
       /\ \A k \in DOMAIN src.m :
            k \in DOMAIN sk.m /\ ArrayRule(src.m[k], sk.m[k])
  ELSE IF src.t = "arr"
  THEN /\ sk.t = "arr"
       /\ (src.a = << >>) <=> (sk.a = << >>)
       /\ src.a # << >> => sk.a = <<MergeAll(src.a, Len(src.a))>>
  ELSE TRUE

\* C26: no array of a skeleton has more than one element: an array with
\* elements becomes the array of one element, the deep merge of all its
\* sanitized elements, and an array is empty in the skeleton exactly when
\* it was empty in the document.
C26_ArraysFolded ==
  skeleton.pass >= 1 =>
    /\ AtMostOne(VObj(skeleton.first))
    /\ ArrayRule(VObj(rawDoc), VObj(skeleton.first))

\* an array of different objects was folded into one element
C26_Witness ==
  /\ skeleton.pass = 1
  /\ Len(Items) >= 2
  /\ Items[1].t = "obj"
  /\ Items[2].t = "obj"
  /\ DOMAIN Items[1].m # DOMAIN Items[2].m
  /\ Len(SkeletonItems) = 1

\* s from its last element to its first
Reverse(s) == [i \in 1..Len(s) |-> s[Len(s) + 1 - i]]

\* C27: in the skeleton merge the scalar seen first stays: a scalar zero
\* value merged with a later object, array or scalar of another type is
\* that scalar, and an array that begins with a scalar folds into it.
C27_FirstScalarStays ==
  skeleton.pass >= 1 =>
    /\ \A i, j \in DOMAIN Items :
         buildTemplateValue(Items[i]).t \notin {"obj", "arr"} =>
           mergeTemplateValues(buildTemplateValue(Items[i]),
                               buildTemplateValue(Items[j]))
             = buildTemplateValue(Items[i])
    /\ (Items # << >> /\ Items[1].t \notin {"obj", "arr"}) =>
         SkeletonItems = <<ZeroOf(Items[1])>>

\* an array of a scalar and then an object was folded into the scalar, and
\* the same elements from last to first fold into something else
C27_Witness ==
  /\ skeleton.pass = 1
  /\ Len(Items) >= 2
  /\ Items[1].t = "int"
  /\ Items[2].t = "obj"
  /\ SkeletonItems = <<VInt(0)>>
  /\ buildTemplateValue(VArr(Reverse(Items))) # VArr(SkeletonItems)

\* under every key that A and B share and hold an object, R holds an
\* object with the keys of both, and so on down
RECURSIVE NestedCovered(_, _, _)
NestedCovered(A, B, R) ==
  \A k \in DOMAIN A \cap DOMAIN B :
    (A[k].t = "obj" /\ B[k].t = "obj") =>
      /\ k \in DOMAIN R
      /\ R[k].t = "obj"
      /\ DOMAIN A[k].m \cup DOMAIN B[k].m \subseteq DOMAIN R[k].m
      /\ NestedCovered(A[k].m, B[k].m, R[k].m)

RECURSIVE Covered(_, _)
Covered(objs, R) ==
  /\ R.t = "obj"
  /\ \A o \in objs : DOMAIN o \subseteq DOMAIN R.m
  /\ \A k \in UNION {DOMAIN o : o \in objs} :
       LET held == {o[k] : o \in {x \in objs : k \in DOMAIN x}}
       IN  (\A v \in held : v.t = "obj") =>
             Covered({v.m : v \in held}, R.m[k])

Published(review) ==
  /\ review.t = "obj"
  /\ "status" \in DOMAIN review.m
  /\ review.m["status"] = VBool(TRUE)
  /\ "text" \in DOMAIN review.m
  /\ review.m["text"].t = "str"
  /\ Len(review.m["text"].s) > 0

\* C29: for every document of google_reviews whose reviews is an array,
\* FetchGoogleReviewsJSON returns the reviews that are objects with the
\* boolean status true and a non-empty string text, in the order they had,
\* and no other: none with status false, with a status that is missing or
\* no boolean, or with a text that is empty or missing.
C29_PublishedReviewsOnly ==
  results.err = "" =>
    /\ Len(results.google_reviews) = Len(googleReviews)
    /\ \A i \in DOMAIN googleReviews :
         ("reviews" \in DOMAIN googleReviews[i]
            /\ googleReviews[i]["reviews"].t = "arr") =>
           /\ results.google_reviews[i]["reviews"].a
                = SelectSeq(googleReviews[i]["reviews"].a, Published)
           /\ \A j \in DOMAIN results.google_reviews[i]["reviews"].a :
                Published(results.google_reviews[i]["reviews"].a[j])

\* a document with two published reviews around one with an empty text was
\* fetched
C29_Witness ==
  /\ results.err = ""
  /\ \E i \in DOMAIN googleReviews :
       /\ "reviews" \in DOMAIN googleReviews[i]
       /\ googleReviews[i]["reviews"].t = "arr"
       /\ Len(googleReviews[i]["reviews"].a) = 3
       /\ Published(googleReviews[i]["reviews"].a[1])
       /\ ~Published(googleReviews[i]["reviews"].a[2])
       /\ Published(googleReviews[i]["reviews"].a[3])
       /\ googleReviews[i]["reviews"].a[1] # googleReviews[i]["reviews"].a[3]
       /\ Len(results.google_reviews[i]["reviews"].a) = 2

====
